---- MODULE Spec2Model ----
(***************************************************************************)
(* A model of the numerical core of PlutoTools: the ion-fraction table     *)
(* (IonFractionCollection), the uniform-grid resampler and point sampler   *)
(* (Interpolate) and the radial resampler (interpolateRadialGrid).         *)
(*                                                                         *)
(* Numbers.  The code computes in float64; the model computes exactly, in  *)
(* integers and in fractions <<num, den>> with den > 0.  A base-10         *)
(* logarithm is held in half decades: the log axis value 3 stands for      *)
(* log10 = 1.5.  Sample values are positive and lie on the half-decade     *)
(* lattice 1, 3, 10, 32, 100 (10^0, 10^0.5, ... written to the nearest     *)
(* integer), so that their logarithms are exact in that unit.  What        *)
(* float64 rounding adds to the code's behaviour is outside the model.     *)
(***************************************************************************)
EXTENDS Integers, Sequences, FiniteSets, TLC

VARIABLES
    collection,   \* the IonFractionCollection object (its attributes)
    lookups,      \* per caller, the lookup it has in progress on the collection
    ionpc,        \* "new" after __init__, then "built" or "failed" after loadIonData
    ionret,       \* the call of the ion table in progress at its caller, or op "none"
    data,         \* the simulation data object: x1, x2 and the named variables
    ugrid,        \* the uniform grid interpolateToUniformGrid returned last
    gridret,      \* the interpolatePoint2D call in progress at its caller, or op "none"
    radret,       \* the interpolateRadialGrid call in progress at its caller, or op "none"
    radcalls,     \* the number of interpolateRadialGrid calls made on the data object
    rotret,       \* the transform...ToCylindrical call in progress at its caller, or op "none"
    stream        \* the computeStreamline call in progress: its arguments, locals and position

ionvars == <<collection, lookups, ionpc, ionret>>

datavars == <<data, ugrid, gridret, radret, radcalls, rotret, stream>>

vars == <<collection, lookups, ionpc, ionret, data, ugrid, gridret, radret, radcalls, rotret, stream>>

-----------------------------------------------------------------------------
(* Arithmetic helpers *)

Abs(a) == IF a < 0 THEN -a ELSE a

\* (In GCD, Frac and the operators on fractions an argument is bound to a variable,
\* x \in {a}: it is then evaluated once, however often its value is used.)
RECURSIVE GCD(_, _)
GCD(a, b) ==
    CHOOSE g \in {IF y = 0 THEN x ELSE GCD(y, x % y) : x \in {a}, y \in {b}} : TRUE

\* A fraction n/d (d # 0) in lowest terms, its denominator positive.
Frac(n, d) ==
    CHOOSE f \in { LET g == GCD(Abs(x), Abs(y))
                       s == IF y < 0 THEN 0 - 1 ELSE 1
                   IN  IF g = 0 THEN <<x, y>> ELSE <<(s * x) \div g, (s * y) \div g>>
                   : x \in {n}, y \in {d} } : TRUE

RECURSIVE Digits(_)
Digits(n) == IF n < 10 THEN 1 ELSE 1 + Digits(n \div 10)

\* np.log10(0) is -inf: a value below every axis value.
NegInf == -1000

\* np.log10 in half decades, to the nearest half decade:
\* round(2*log10(v)) = floor(log10(10*v^4) / 2).  log10(0) = -inf.
Log10x2(v) ==
    IF v = 0 THEN NegInf ELSE (Digits(10 * v * v * v * v) - 1) \div 2

\* Python indexing of a sequence of length n by i: 0-based, negative from the end.
PyIndexOK(n, i) == (-n <= i) /\ (i < n)

PyAt(a, i) == IF i >= 0 THEN a[i + 1] ELSE a[Len(a) + i + 1]

-----------------------------------------------------------------------------
(* IonFractionCollection *)

\* The cube's extent per axis: np.zeros([20,20,20]).
CubeSize == 20

\* sorted(list(set(xs)))
SortedWithDuplicates(xs) ==
    LET RECURSIVE Ins(_, _)
        Ins(s, v) == IF s = <<>> THEN <<v>>
                     ELSE IF v <= Head(s) THEN <<v>> \o s
                     ELSE <<Head(s)>> \o Ins(Tail(s), v)
        RECURSIVE Go(_, _)
        Go(i, acc) == IF i > Len(xs) THEN acc ELSE Go(i + 1, Ins(acc, xs[i]))
    IN  Go(1, <<>>)

RECURSIVE Ascending(_)
Ascending(S) ==
    IF S = {} THEN <<>>
    ELSE LET m == CHOOSE a \in S : \A b \in S : a <= b
         IN  <<m>> \o Ascending(S \ {m})

\* The unique values in ascending order, filled up with zeros to the size of the cube.
SortedUniqueZeroPadded(xs) ==
    LET u == Ascending({xs[i] : i \in DOMAIN xs})
    IN  u \o [i \in 1..(CubeSize - Len(u)) |-> 0]

SortedUnique(xs) == Ascending({xs[i] : i \in DOMAIN xs})

\* np.where(arr == v)[0][0]: the first 0-based position of v in arr.
WhereFirst(arr, v) == (CHOOSE i \in DOMAIN arr : arr[i] = v /\ \A j \in 1..(i - 1) : arr[j] # v) - 1

\* The data cube: its shape, and the cells ever written (the others hold the 0.0
\* of np.zeros).
EmptyCells == [c \in {} |-> 0]

ZerosCube == [shape |-> <<CubeSize, CubeSize, CubeSize>>, cells |-> EmptyCells]

\* An index check that has no upper end, as if the cube grew with its samples.
CubeIndexOKUnbounded(d, i, j, k) ==
    /\ Len(d.shape) = 3
    /\ (-d.shape[1] <= i) /\ (-d.shape[2] <= j) /\ (-d.shape[3] <= k)

CubeIndexOK(d, i, j, k) ==
    /\ Len(d.shape) = 3
    /\ PyIndexOK(d.shape[1], i) /\ PyIndexOK(d.shape[2], j) /\ PyIndexOK(d.shape[3], k)

Wrap(n, i) == IF i >= 0 THEN i ELSE n + i

\* data[i][j][k]
CubeAtTransposed(d, i, j, k) ==
    LET c == <<Wrap(d.shape[1], i), Wrap(d.shape[3], k), Wrap(d.shape[2], j)>>
    IN  IF c \in DOMAIN d.cells THEN d.cells[c] ELSE 0

CubeAt(d, i, j, k) ==
    LET c == <<Wrap(d.shape[1], i), Wrap(d.shape[2], j), Wrap(d.shape[3], k)>>
    IN  IF c \in DOMAIN d.cells THEN d.cells[c] ELSE 0

\* data[i][j][k] = v
CubeSet(d, i, j, k, v) ==
    LET c == <<i, j, k>>
    IN  [d EXCEPT !.cells = [q \in (DOMAIN d.cells) \cup {c} |->
                                IF q = c THEN v ELSE d.cells[q]]]

\* __init__
NewCollection ==
    [ data |-> [shape |-> <<0>>, cells |-> EmptyCells],
      n_temp |-> 0, n_zeta |-> 0, n_nn |-> 0,
      d_temp |-> 0, d_zeta |-> 0, d_nn |-> 0,
      start_temp |-> 0, end_temp |-> 0,
      start_zeta |-> 0, end_zeta |-> 0,
      start_nn |-> 0, end_nn |-> 0,
      temp_array |-> <<>>, zeta_array |-> <<>>, nn_array |-> <<>> ]

\* The scatter loop of loadIonData: each sample's xe goes to the cell of its three
\* axis positions.  A position beyond the cube raises IndexError and leaves the cube
\* as filled so far.
RECURSIVE Scatter(_, _, _, _, _, _)
Scatter(loadedData, i, ta, za, na, d) ==
    IF i > Len(loadedData) THEN [data |-> d, raised |-> "none"]
    ELSE LET element == loadedData[i]
             i_t     == WhereFirst(ta, element.t)
             i_zeta  == WhereFirst(za, element.zeta)
             i_nn    == WhereFirst(na, element.nn)
         IN  IF ~CubeIndexOK(d, i_t, i_zeta, i_nn)
             THEN [data |-> d, raised |-> "IndexError"]
             ELSE Scatter(loadedData, i + 1, ta, za, na,
                          CubeSet(d, i_t, i_zeta, i_nn, element.xe))

LogArray(a) == [i \in DOMAIN a |-> Log10x2(a[i])]

\* loadIonData on object self with the unpickled list loadedData: the object as the
\* call leaves it, and the exception it raised ("none": it returned).
LoadIonData(self, loadedData) ==
    LET t_raw == SortedUnique(self.temp_array \o [i \in DOMAIN loadedData |-> loadedData[i].t])
        z_raw == SortedUnique(self.zeta_array \o [i \in DOMAIN loadedData |-> loadedData[i].zeta])
        n_raw == SortedUnique(self.nn_array \o [i \in DOMAIN loadedData |-> loadedData[i].nn])
        sc    == Scatter(loadedData, 1, t_raw, z_raw, n_raw, ZerosCube)
        s1    == [self EXCEPT !.temp_array = t_raw, !.zeta_array = z_raw,
                              !.nn_array = n_raw, !.data = sc.data]
        ta    == LogArray(t_raw)
        za    == LogArray(z_raw)
        na    == LogArray(n_raw)
        s2    == [s1 EXCEPT !.temp_array = ta, !.zeta_array = za, !.nn_array = na,
                            !.n_temp = Len(ta), !.n_zeta = Len(za), !.n_nn = Len(na)]
    IN  IF sc.raised # "none" THEN [self |-> s1, raised |-> sc.raised]
        ELSE IF Len(ta) < 2 THEN [self |-> s2, raised |-> "IndexError"]
        ELSE IF Len(za) < 2
             THEN [self |-> [s2 EXCEPT !.d_temp = ta[2] - ta[1]], raised |-> "IndexError"]
        ELSE IF Len(na) < 2
             THEN [self |-> [s2 EXCEPT !.d_temp = ta[2] - ta[1], !.d_zeta = za[2] - za[1]],
                   raised |-> "IndexError"]
        ELSE [self |-> [s2 EXCEPT !.d_temp = ta[2] - ta[1],
                                  !.d_zeta = za[2] - za[1],
                                  !.d_nn = na[2] - na[1],
                                  !.start_temp = ta[1], !.end_temp = ta[Len(ta)],
                                  !.start_zeta = za[1], !.end_zeta = za[Len(za)],
                                  !.start_nn = na[1], !.end_nn = na[Len(na)]],
              raised |-> "none"]

\* The body shared by the three getIndicesFor*Value methods, on one axis's start, end,
\* length and spacing: x is a log10 value.
BracketSearchHighOffByOne(start, end, n, d, x0) ==
    LET x == x0 - start
    IN  IF x <= 0 THEN [raised |-> "none", l |-> 0, r |-> 0]
        ELSE IF x >= end - start THEN [raised |-> "none", l |-> n, r |-> n]
        ELSE IF d = 0 THEN [raised |-> "OverflowError", l |-> 0, r |-> 0]
        ELSE [raised |-> "none", l |-> x \div d, r |-> (x + d - 1) \div d]

BracketSearchCeilFloor(start, end, n, d, x0) ==
    LET x == x0 - start
    IN  IF x <= 0 THEN [raised |-> "none", l |-> 0, r |-> 0]
        ELSE IF x >= end - start THEN [raised |-> "none", l |-> n - 1, r |-> n - 1]
        ELSE IF d = 0 THEN [raised |-> "OverflowError", l |-> 0, r |-> 0]
        ELSE [raised |-> "none", l |-> (x + d - 1) \div d, r |-> x \div d]

BracketSearchNoLowClamp(start, end, n, d, x0) ==
    LET x == x0 - start
    IN  IF x < 0 THEN [raised |-> "none", l |-> 0, r |-> 1]
        ELSE IF x = 0 THEN [raised |-> "none", l |-> 0, r |-> 0]
        ELSE IF x >= end - start THEN [raised |-> "none", l |-> n - 1, r |-> n - 1]
        ELSE IF d = 0 THEN [raised |-> "OverflowError", l |-> 0, r |-> 0]
        ELSE [raised |-> "none", l |-> x \div d, r |-> (x + d - 1) \div d]

\* x / 0.0 is inf in numpy, and int(np.floor(inf)) raises OverflowError.
BracketSearch(start, end, n, d, x0) ==
    LET x == x0 - start
    IN  IF x <= 0 THEN [raised |-> "none", l |-> 0, r |-> 0]
        ELSE IF x >= end - start THEN [raised |-> "none", l |-> n - 1, r |-> n - 1]
        ELSE IF d = 0 THEN [raised |-> "OverflowError", l |-> 0, r |-> 0]
        ELSE [raised |-> "none", l |-> x \div d, r |-> (x + d - 1) \div d]

getIndicesForTempValue(self, x) ==
    BracketSearch(self.start_temp, self.end_temp, self.n_temp, self.d_temp, x)

getIndicesForZetaValue(self, x) ==
    BracketSearch(self.start_zeta, self.end_zeta, self.n_zeta, self.d_zeta, x)

getIndicesForNnValue(self, x) ==
    BracketSearch(self.start_nn, self.end_nn, self.n_nn, self.d_nn, x)

\* The scaled difference coordinate between two lattice values, with the boundary
\* case x0 == x1 treated as 0.0: a fraction <<num, den>>.
ScaledDifferenceSwapped(x, x0, x1) == IF x0 = x1 THEN <<0, 1>> ELSE <<x1 - x, x1 - x0>>

ScaledDifference(x, x0, x1) == IF x0 = x1 THEN <<0, 1>> ELSE <<x - x0, x1 - x0>>

\* interpolateIonFraction: [raised, val], val the fraction returned.
interpolateIonFraction(self, temp, zeta, nn) ==
    LET x  == Log10x2(temp)
        y  == Log10x2(zeta)
        z  == Log10x2(nn)
        bx == getIndicesForTempValue(self, x)
        by == getIndicesForZetaValue(self, y)
        bz == getIndicesForNnValue(self, z)
        Raise(e) == [raised |-> e, val |-> <<>>]
    IN  IF bx.raised # "none" THEN Raise(bx.raised)
        ELSE IF by.raised # "none" THEN Raise(by.raised)
        ELSE IF bz.raised # "none" THEN Raise(bz.raised)
        ELSE IF \/ ~PyIndexOK(Len(self.temp_array), bx.l) \/ ~PyIndexOK(Len(self.temp_array), bx.r)
                \/ ~PyIndexOK(Len(self.zeta_array), by.l) \/ ~PyIndexOK(Len(self.zeta_array), by.r)
                \/ ~PyIndexOK(Len(self.nn_array), bz.l)   \/ ~PyIndexOK(Len(self.nn_array), bz.r)
             THEN Raise("IndexError")
        ELSE IF \/ ~CubeIndexOK(self.data, bx.l, by.l, bz.l)
                \/ ~CubeIndexOK(self.data, bx.r, by.r, bz.r)
             THEN Raise("IndexError")
        ELSE
        LET xl == bx.l  xr == bx.r  yl == by.l  yr == by.r  zl == bz.l  zr == bz.r
            x_d == ScaledDifference(x, PyAt(self.temp_array, xl), PyAt(self.temp_array, xr))
            y_d == ScaledDifference(y, PyAt(self.zeta_array, yl), PyAt(self.zeta_array, yr))
            z_d == ScaledDifference(z, PyAt(self.nn_array, zl), PyAt(self.nn_array, zr))
            c000 == CubeAt(self.data, xl, yl, zl)
            c001 == CubeAt(self.data, xl, yl, zr)
            c010 == CubeAt(self.data, xl, yr, zl)
            c011 == CubeAt(self.data, xl, yr, zr)
            c100 == CubeAt(self.data, xr, yl, zl)
            c101 == CubeAt(self.data, xr, yl, zr)
            c110 == CubeAt(self.data, xr, yr, zl)
            c111 == CubeAt(self.data, xr, yr, zr)
            \* along the temperature axis (numerators over x_d[2])
            c00 == c000 * (x_d[2] - x_d[1]) + c100 * x_d[1]
            c01 == c001 * (x_d[2] - x_d[1]) + c101 * x_d[1]
            c10 == c010 * (x_d[2] - x_d[1]) + c110 * x_d[1]
            c11 == c011 * (x_d[2] - x_d[1]) + c111 * x_d[1]
            \* along the zeta axis (over x_d[2] * y_d[2])
            c0 == c00 * (y_d[2] - y_d[1]) + c10 * y_d[1]
            c1 == c01 * (y_d[2] - y_d[1]) + c11 * y_d[1]
            \* along the nn axis (over x_d[2] * y_d[2] * z_d[2])
            c  == c0 * (z_d[2] - z_d[1]) + c1 * z_d[1]
        IN  [raised |-> "none", val |-> Frac(c, x_d[2] * y_d[2] * z_d[2])]

\* interpolateIonFraction statement by statement, as a caller whose steps other
\* callers may run between: each part returns the attributes of self as it leaves
\* them, the exception raised, and the caller's local variables.
\* First part: the logarithms and the three bracket searches (x .. zr).
LookupIndexLocals(self, temp, zeta, nn) ==
    LET x  == Log10x2(temp)
        y  == Log10x2(zeta)
        z  == Log10x2(nn)
        bx == getIndicesForTempValue(self, x)
        by == getIndicesForZetaValue(self, y)
        bz == getIndicesForNnValue(self, z)
        Raise(e) == [raised |-> e, locals |-> <<>>]
    IN  IF bx.raised # "none" THEN Raise(bx.raised)
        ELSE IF by.raised # "none" THEN Raise(by.raised)
        ELSE IF bz.raised # "none" THEN Raise(bz.raised)
        ELSE [raised |-> "none",
              locals |-> [x |-> x, y |-> y, z |-> z, xl |-> bx.l, xr |-> bx.r,
                          yl |-> by.l, yr |-> by.r, zl |-> bz.l, zr |-> bz.r]]

\* The same part, keeping the logarithm of the temperature in an attribute of self.
LookupIndicesKeepingLog(self, temp, zeta, nn) ==
    [self |-> [self EXCEPT !.start_temp = Log10x2(temp)],
     res  |-> LookupIndexLocals(self, temp, zeta, nn)]

LookupIndices(self, temp, zeta, nn) ==
    [self |-> self, res |-> LookupIndexLocals(self, temp, zeta, nn)]

\* Second part: the axis values at the six indices (x0 .. z1).
LookupAxisValues(self, loc) ==
    [self |-> self,
     res  |->
        IF \/ ~PyIndexOK(Len(self.temp_array), loc.xl) \/ ~PyIndexOK(Len(self.temp_array), loc.xr)
           \/ ~PyIndexOK(Len(self.zeta_array), loc.yl) \/ ~PyIndexOK(Len(self.zeta_array), loc.yr)
           \/ ~PyIndexOK(Len(self.nn_array), loc.zl)   \/ ~PyIndexOK(Len(self.nn_array), loc.zr)
        THEN [raised |-> "IndexError", locals |-> <<>>]
        ELSE [raised |-> "none",
              locals |-> [x |-> loc.x, y |-> loc.y, z |-> loc.z,
                          xl |-> loc.xl, xr |-> loc.xr, yl |-> loc.yl,
                          yr |-> loc.yr, zl |-> loc.zl, zr |-> loc.zr,
                          x0 |-> PyAt(self.temp_array, loc.xl),
                          x1 |-> PyAt(self.temp_array, loc.xr),
                          y0 |-> PyAt(self.zeta_array, loc.yl),
                          y1 |-> PyAt(self.zeta_array, loc.yr),
                          z0 |-> PyAt(self.nn_array, loc.zl),
                          z1 |-> PyAt(self.nn_array, loc.zr)]]]

\* Third part: the scaled differences, the eight corners of the cube and the three
\* interpolations; val is the fraction returned.
LookupCorners(self, loc) ==
    [self |-> self,
     res  |->
        IF \/ ~CubeIndexOK(self.data, loc.xl, loc.yl, loc.zl)
           \/ ~CubeIndexOK(self.data, loc.xr, loc.yr, loc.zr)
        THEN [raised |-> "IndexError", val |-> <<>>]
        ELSE
        LET x_d == ScaledDifference(loc.x, loc.x0, loc.x1)
            y_d == ScaledDifference(loc.y, loc.y0, loc.y1)
            z_d == ScaledDifference(loc.z, loc.z0, loc.z1)
            c000 == CubeAt(self.data, loc.xl, loc.yl, loc.zl)
            c001 == CubeAt(self.data, loc.xl, loc.yl, loc.zr)
            c010 == CubeAt(self.data, loc.xl, loc.yr, loc.zl)
            c011 == CubeAt(self.data, loc.xl, loc.yr, loc.zr)
            c100 == CubeAt(self.data, loc.xr, loc.yl, loc.zl)
            c101 == CubeAt(self.data, loc.xr, loc.yl, loc.zr)
            c110 == CubeAt(self.data, loc.xr, loc.yr, loc.zl)
            c111 == CubeAt(self.data, loc.xr, loc.yr, loc.zr)
            c00 == c000 * (x_d[2] - x_d[1]) + c100 * x_d[1]
            c01 == c001 * (x_d[2] - x_d[1]) + c101 * x_d[1]
            c10 == c010 * (x_d[2] - x_d[1]) + c110 * x_d[1]
            c11 == c011 * (x_d[2] - x_d[1]) + c111 * x_d[1]
            c0 == c00 * (y_d[2] - y_d[1]) + c10 * y_d[1]
            c1 == c01 * (y_d[2] - y_d[1]) + c11 * y_d[1]
            c  == c0 * (z_d[2] - z_d[1]) + c1 * z_d[1]
        IN  [raised |-> "none", val |-> Frac(c, x_d[2] * y_d[2] * z_d[2])]]

\* One of the three bracket searches, by its name.
getIndicesFor(op, self, x) ==
    CASE op = "getIndicesForTempValue" -> getIndicesForTempValue(self, x)
      [] op = "getIndicesForZetaValue" -> getIndicesForZetaValue(self, x)
      [] op = "getIndicesForNnValue"   -> getIndicesForNnValue(self, x)


-----------------------------------------------------------------------------
(* The inputs of the ion table *)

\* The sample values of each coordinate, and the values a lookup is asked at
\* (0 is what the point sampler returns outside its grid).
RawT == {1, 3, 10, 32, 100}
RawZ == {1, 3, 32}
RawN == {1, 10, 100}
QueryT == {0, 1, 3, 10, 32, 100}
QueryZ == {1, 3, 10, 32}
QueryN == {1, 3, 10, 100}

\* Log values a bracket search is asked at directly: -1 .. MaxLog.
MaxLog == 5
LogQueries == (0 - 1)..MaxLog

\* How many leading samples a sample file may lack of its full grid.
MaxDrop == 1

\* The ion fraction of a sample (in arbitrary units): distinct for distinct samples.
XeOf(t, zeta, nn) == 1 + Log10x2(t) + 5 * Log10x2(zeta) + 25 * Log10x2(nn)

IonFraction(t, zeta, nn, xe) == [t |-> t, zeta |-> zeta, nn |-> nn, xe |-> xe]

\* diff_results.p holding the grid T x Z x N, in order, without its first k samples.
GridFile(T, Z, N, k) ==
    LET ts == Ascending(T)
        zs == Ascending(Z)
        ns == Ascending(N)
        nz == Len(zs)
        nn == Len(ns)
        all == [i \in 1..(Len(ts) * nz * nn) |->
                   LET t    == ts[((i - 1) \div (nz * nn)) + 1]
                       zeta == zs[(((i - 1) \div nn) % nz) + 1]
                       n    == ns[((i - 1) % nn) + 1]
                   IN  IonFraction(t, zeta, n, XeOf(t, zeta, n))]
    IN  SubSeq(all, k + 1, Len(all))

SampleFiles ==
    { GridFile(T, Z, N, k) : T \in SUBSET RawT, Z \in SUBSET RawZ,
                             N \in SUBSET RawN, k \in 0..MaxDrop }

-----------------------------------------------------------------------------
(* The ion table's operations as steps of its caller.  The caller                *)
(* (computeElsasserNumbers) constructs the collection, loads it, and looks values *)
(* up only once loadIonData has returned: an exception of the load ends it.       *)

\* The callers that look values up in one collection, and a caller with no lookup
\* in progress.  pc is the caller's position in interpolateIonFraction, locals the
\* local variables assigned so far; overlap records that another caller ran a step
\* while this lookup was in progress.
Callers == {1, 2}

NoLookup == [pc |-> "idle", op |-> "none", args |-> <<>>, locals |-> <<>>,
             raised |-> "none", val |-> <<>>, overlap |-> FALSE]

NoCall == [op |-> "none", args |-> <<>>, raised |-> "none", val |-> <<>>]

Call(op, args, raised, val) == [op |-> op, args |-> args, raised |-> raised, val |-> val]

IonNew ==
    /\ collection = NewCollection
    /\ lookups = [r \in Callers |-> NoLookup]
    /\ ionpc = "new"
    /\ ionret = NoCall

\* A field value or a sampled value: not-a-number or a fraction.
NaN == [nan |-> TRUE, q |-> <<0, 1>>]

Fin(n, d) == [nan |-> FALSE, q |-> Frac(n, d)]

\* No simulation data is loaded while the ion table is exercised.
NoData == [x1 |-> <<>>, x2 |-> <<>>, variables |-> <<>>]

\* No uniform grid has been built, no point is being sampled.
NoSample == [op |-> "none", p |-> <<>>, index |-> <<>>, val |-> Fin(0, 1)]

NoGrid == [by |-> "none", x_range |-> <<>>, y_range |-> <<>>,
           grid_x |-> <<>>, grid_y |-> <<>>, newVariable |-> <<>>]

\* computeStreamline is not being called.
NoStreamline == [pc |-> "none"]

\* No rotation to cylindrical components is in progress.
NoRotation == [op |-> "none", raised |-> "none", val |-> <<>>, before |-> NoData]

\* No radial resampling is in progress.  (before: the data object as the call found it.)
NoResample == [op |-> "none", newTicks |-> <<>>, raised |-> "none", before |-> NoData]


\* collection.loadIonData() on a fresh object.
IonLoad ==
    /\ ionret.op = "none"
    /\ ionpc = "new"
    /\ \E f \in SampleFiles :
          LET res == LoadIonData(collection, f)
          IN  /\ collection' = res.self
              /\ ionpc' = IF res.raised = "none" THEN "built" ELSE "failed"
              /\ ionret' = Call("loadIonData", <<>>, res.raised, <<>>)
    /\ UNCHANGED <<lookups, datavars>>

\* loadIonData again, from a file that holds samples: the axes are arrays by then, and
\* the first append raises AttributeError before anything is assigned.  (A second load
\* from an empty file is not modelled.)
IonReload ==
    /\ ionret.op = "none"
    /\ ionpc # "new"
    /\ ionret' = Call("loadIonData", <<>>, "AttributeError", <<>>)
    /\ UNCHANGED <<collection, lookups, ionpc, datavars>>

IonGetIndicesForTempValue ==
    /\ ionret.op = "none"
    /\ ionpc = "built"
    /\ \E x \in LogQueries :
          LET b == getIndicesForTempValue(collection, x)
          IN  ionret' = Call("getIndicesForTempValue", <<x>>, b.raised, <<b.l, b.r>>)
    /\ UNCHANGED <<collection, lookups, ionpc, datavars>>

IonGetIndicesForZetaValue ==
    /\ ionret.op = "none"
    /\ ionpc = "built"
    /\ \E x \in LogQueries :
          LET b == getIndicesForZetaValue(collection, x)
          IN  ionret' = Call("getIndicesForZetaValue", <<x>>, b.raised, <<b.l, b.r>>)
    /\ UNCHANGED <<collection, lookups, ionpc, datavars>>

IonGetIndicesForNnValue ==
    /\ ionret.op = "none"
    /\ ionpc = "built"
    /\ \E x \in LogQueries :
          LET b == getIndicesForNnValue(collection, x)
          IN  ionret' = Call("getIndicesForNnValue", <<x>>, b.raised, <<b.l, b.r>>)
    /\ UNCHANGED <<collection, lookups, ionpc, datavars>>

IonInterpolate ==
    /\ ionret.op = "none"
    /\ ionpc = "built"
    /\ \E temp \in QueryT, zeta \in QueryZ, nn \in QueryN :
          LET c == interpolateIonFraction(collection, temp, zeta, nn)
          IN  ionret' = Call("interpolateIonFraction", <<temp, zeta, nn>>, c.raised, c.val)
    /\ UNCHANGED <<collection, lookups, ionpc, datavars>>

\* The caller takes the result (or the exception) and goes on.
IonReturn ==
    /\ ionret.op # "none"
    /\ ionret' = NoCall
    /\ UNCHANGED <<collection, lookups, ionpc, datavars>>

IonNext ==
    \/ IonLoad
    \/ IonReload
    \/ IonGetIndicesForTempValue
    \/ IonGetIndicesForZetaValue
    \/ IonGetIndicesForNnValue
    \/ IonInterpolate
    \/ IonReturn

IonInit ==
    /\ IonNew
    /\ data = NoData /\ ugrid = NoGrid /\ gridret = NoSample
    /\ radret = NoResample /\ radcalls = 0 /\ rotret = NoRotation
    /\ stream = NoStreamline

SpecIon == IonInit /\ [][IonNext]_vars

-----------------------------------------------------------------------------
(* Several callers looking values up in one loaded collection, their steps      *)
(* interleaved: each caller is somewhere in interpolateIonFraction or runs one  *)
(* bracket search.                                                              *)

\* The points the callers ask at.
LookupPoints == {0, 3, 100} \X {1, 10} \X {3, 100}

BracketSearches == {"getIndicesForTempValue", "getIndicesForZetaValue", "getIndicesForNnValue"}

\* The files the shared collection is loaded from.
LookupFiles ==
    { GridFile(T, Z, N, k) : T \in {{1, 3}, {1, 10, 100}, RawT}, Z \in {{1, 32}, RawZ},
                             N \in {{1, 100}, RawN}, k \in 0..MaxDrop }

\* collection.loadIonData() on the fresh object, before any caller looks a value up.
LookupLoad ==
    /\ ionret.op = "none"
    /\ ionpc = "new"
    /\ \E f \in LookupFiles :
          LET res == LoadIonData(collection, f)
          IN  /\ collection' = res.self
              /\ ionpc' = IF res.raised = "none" THEN "built" ELSE "failed"
              /\ ionret' = Call("loadIonData", <<>>, res.raised, <<>>)
    /\ UNCHANGED <<lookups, datavars>>

\* Caller r moves to record rec; every other caller in the middle of a lookup has
\* been overlapped.
LookupStep(r, rec) ==
    [c \in Callers |->
        IF c = r THEN rec
        ELSE IF lookups[c].pc \in {"indexed", "read"}
             THEN [lookups[c] EXCEPT !.overlap = TRUE]
             ELSE lookups[c]]

Raised(r, e) == [lookups[r] EXCEPT !.pc = "returned", !.raised = e, !.locals = <<>>]

\* A caller enters interpolateIonFraction and runs it up to the bracket searches.
LookupCall ==
    /\ ionpc = "built"
    /\ ionret.op = "none"
    /\ \E r \in Callers, q \in LookupPoints :
          /\ lookups[r].pc = "idle"
          /\ LET part == LookupIndices(collection, q[1], q[2], q[3])
                 rec  == [NoLookup EXCEPT !.op = "interpolateIonFraction", !.args = q]
             IN  /\ collection' = part.self
                 /\ lookups' = LookupStep(r,
                       IF part.res.raised # "none"
                       THEN [rec EXCEPT !.pc = "returned", !.raised = part.res.raised]
                       ELSE [rec EXCEPT !.pc = "indexed", !.locals = part.res.locals])
    /\ UNCHANGED <<ionpc, ionret, datavars>>

\* The caller reads the axis values.
LookupReadAxes ==
    /\ \E r \in Callers :
          /\ lookups[r].pc = "indexed"
          /\ LET part == LookupAxisValues(collection, lookups[r].locals)
             IN  /\ collection' = part.self
                 /\ lookups' = LookupStep(r,
                       IF part.res.raised # "none"
                       THEN Raised(r, part.res.raised)
                       ELSE [lookups[r] EXCEPT !.pc = "read", !.locals = part.res.locals])
    /\ UNCHANGED <<ionpc, ionret, datavars>>

\* The caller reads the corners of the cube, interpolates and returns.
LookupReadCube ==
    /\ \E r \in Callers :
          /\ lookups[r].pc = "read"
          /\ LET part == LookupCorners(collection, lookups[r].locals)
             IN  /\ collection' = part.self
                 /\ lookups' = LookupStep(r,
                       [lookups[r] EXCEPT !.pc = "returned", !.locals = <<>>,
                                          !.raised = part.res.raised,
                                          !.val = part.res.val])
    /\ UNCHANGED <<ionpc, ionret, datavars>>

\* A caller runs one bracket search.
LookupGetIndices ==
    /\ ionpc = "built"
    /\ ionret.op = "none"
    /\ \E r \in Callers, op \in BracketSearches, x \in LogQueries :
          /\ lookups[r].pc = "idle"
          /\ LET b == getIndicesFor(op, collection, x)
             IN  lookups' = LookupStep(r,
                    [NoLookup EXCEPT !.pc = "returned", !.op = op, !.args = <<x>>,
                                     !.raised = b.raised, !.val = <<b.l, b.r>>])
    /\ UNCHANGED <<collection, ionpc, ionret, datavars>>

\* The caller takes the result (or the exception) and goes on.
LookupReturn ==
    /\ \E r \in Callers :
          /\ lookups[r].pc = "returned"
          /\ lookups' = [lookups EXCEPT ![r] = NoLookup]
    /\ UNCHANGED <<collection, ionpc, ionret, datavars>>

LookupNext ==
    \/ LookupLoad
    \/ IonReturn
    \/ LookupCall
    \/ LookupReadAxes
    \/ LookupReadCube
    \/ LookupGetIndices
    \/ LookupReturn

LookupInit == IonInit

SpecLookup == LookupInit /\ [][LookupNext]_vars

-----------------------------------------------------------------------------
(* loadIonData on files with few and with many unique values per coordinate. *)

\* By how much the unique values of a coordinate exceed the size of the cube.
MaxOver == 1

\* The numbers of unique values of a coordinate in a file.
BuildSizes == {1, 2, CubeSize - 1, CubeSize} \cup ((CubeSize + 1)..(CubeSize + MaxOver))

\* diff_results.p with nt, nz and nn unique values of the three coordinates (the
\* values 1 .. n), each sample taking the next value of every coordinate in turn.
CyclingFile(nt, nz, nn) ==
    LET longest == IF nt >= nz /\ nt >= nn THEN nt ELSE IF nz >= nn THEN nz ELSE nn
    IN  [i \in 1..longest |->
            LET t    == ((i - 1) % nt) + 1
                zeta == ((i - 1) % nz) + 1
                n    == ((i - 1) % nn) + 1
            IN  IonFraction(t, zeta, n, XeOf(t, zeta, n))]

BuildFiles ==
    {<<>>} \cup {CyclingFile(nt, nz, nn) : nt \in BuildSizes, nz \in BuildSizes, nn \in BuildSizes}

\* collection.loadIonData() on a fresh object; the call record keeps the file read.
BuildLoad ==
    /\ ionret.op = "none"
    /\ ionpc = "new"
    /\ \E f \in BuildFiles :
          LET res == LoadIonData(collection, f)
          IN  /\ collection' = res.self
              /\ ionpc' = IF res.raised = "none" THEN "built" ELSE "failed"
              /\ ionret' = Call("loadIonData", <<f>>, res.raised, <<>>)
    /\ UNCHANGED <<lookups, datavars>>

BuildNext ==
    \/ BuildLoad
    \/ IonReturn

BuildInit == IonInit

SpecBuild == BuildInit /\ [][BuildNext]_vars

-----------------------------------------------------------------------------
(* Transform and Interpolate: the polar mesh, the uniform grid, the point sampler. *)
(*                                                                                 *)
(* Lengths are integers in tenths of the simulation's length unit (1.0 is 10).     *)
(* A polar angle is one of four, numbered 0..3: 0, atan(3/4), atan(4/3) and pi/2,  *)
(* whose sines and cosines are the exact fifths 0, 3/5, 4/5, 1; radii are          *)
(* multiples of 5 tenths, so that every mesh point has integer coordinates.        *)
(* The value of a loaded field is a fraction <<n, d>>; a value of the uniform grid  *)
(* or a sampled value is not-a-number or a fraction.                               *)

\* Sum, product and order of fractions <<n, d>>, d > 0.
RAdd(a, b) ==
    CHOOSE f \in {Frac(x[1] * y[2] + y[1] * x[2], x[2] * y[2]) : x \in {a}, y \in {b}} : TRUE

RMul(a, b) ==
    CHOOSE f \in {Frac(x[1] * y[1], x[2] * y[2]) : x \in {a}, y \in {b}} : TRUE

RLess(a, b) == \E x \in {a}, y \in {b} : x[1] * y[2] < y[1] * x[2]

\* 5*sin and 5*cos of angle number k.
Sin5(k) == CASE k = 0 -> 0 [] k = 1 -> 3 [] k = 2 -> 4 [] k = 3 -> 5

Cos5(k) == CASE k = 0 -> 5 [] k = 1 -> 4 [] k = 2 -> 3 [] k = 3 -> 0

\* polarCoordsToCartesian: x and y, each of shape (len(x2), len(x1)).
polarCoordsToCartesian(x1, x2) ==
    [ x |-> [i \in DOMAIN x2 |-> [j \in DOMAIN x1 |-> (x1[j] * Sin5(x2[i])) \div 5]],
      y |-> [i \in DOMAIN x2 |-> [j \in DOMAIN x1 |-> (x1[j] * Cos5(x2[i])) \div 5]] ]

\* np.ravel of a 2-D array: its rows one after the other.
RECURSIVE Ravel(_)
Ravel(m) == IF m = <<>> THEN <<>> ELSE Head(m) \o Ravel(Tail(m))

\* np.linspace(start, end, n): n points from start to end, both included.
Linspace(range) ==
    LET start == range[1]
        end   == range[2]
        n     == range[3]
    IN  [j \in 1..n |-> IF n = 1 THEN start
                        ELSE start + ((j - 1) * (end - start)) \div (n - 1)]

\* np.meshgrid(xs, ys): grid_x[i][j] = xs[j], grid_y[i][j] = ys[i].
Meshgrid(xs, ys) ==
    [ x |-> [i \in DOMAIN ys |-> [j \in DOMAIN xs |-> xs[j]]],
      y |-> [i \in DOMAIN ys |-> [j \in DOMAIN xs |-> ys[i]]] ]

\* Twice the signed area of the triangle a, b, c.
Orient(a, b, c) == (b[1] - a[1]) * (c[2] - a[2]) - (b[2] - a[2]) * (c[1] - a[1])

\* Point p lies in the triangle a, b, c (its border included), which has an area.
InTriangle(p, a, b, c) ==
    LET d  == Orient(a, b, c)
        wa == Orient(p, b, c)
        wb == Orient(a, p, c)
        wc == Orient(a, b, p)
    IN  \/ d > 0 /\ wa >= 0 /\ wb >= 0 /\ wc >= 0
        \/ d < 0 /\ wa <= 0 /\ wb <= 0 /\ wc <= 0

\* scipy.interpolate.griddata(points, values, p), method "linear": not-a-number
\* outside the convex hull of the points, else the barycentric blend of the values at
\* the corners of a triangle of points that holds p.  (scipy takes the triangle of its
\* Delaunay triangulation; the fields of the model are affine in x and y, for which
\* every triangle that holds p gives the same value.)
Griddata(points, values, p) ==
    LET n   == Len(points)
        Tri == { t \in (1..n) \X (1..n) \X (1..n) :
                   t[1] < t[2] /\ t[2] < t[3]
                   /\ InTriangle(p, points[t[1]], points[t[2]], points[t[3]]) }
    IN  IF Tri = {} THEN NaN
        ELSE LET t == CHOOSE u \in Tri : TRUE
                 a == points[t[1]]
                 b == points[t[2]]
                 c == points[t[3]]
                 sum == RAdd(RMul(<<Orient(p, b, c), 1>>, values[t[1]]),
                        RAdd(RMul(<<Orient(a, p, c), 1>>, values[t[2]]),
                             RMul(<<Orient(a, b, p), 1>>, values[t[3]])))
             IN  Fin(sum[1], sum[2] * Orient(a, b, c))

\* The radius below which a cell of the uniform grid is masked: grid_r < 1.0.
InnerRadius == 10

\* grid_r < 1.0 for the cell at (x, y).
InsideInnerBoundary(x, y) == x * x + y * y < InnerRadius * InnerRadius

\* The part of interpolateToUniformGrid that the two copies share: the scattered
\* cloud of the mesh and the variable, interpolated onto the meshgrid of the ranges.
GriddataOnRanges(d, variable, x_range, y_range) ==
    LET xy     == polarCoordsToCartesian(d.x1, d.x2)
        x      == Ravel(xy.x)
        y      == Ravel(xy.y)
        v      == Ravel(variable)
        points == [i \in DOMAIN x |-> <<x[i], y[i]>>]
        grid   == Meshgrid(Linspace(x_range), Linspace(y_range))
    IN  [ grid_x |-> grid.x, grid_y |-> grid.y,
          newVariable |-> [i \in DOMAIN grid.x |-> [j \in DOMAIN grid.x[i] |->
                              Griddata(points, v, <<grid.x[i][j], grid.y[i][j]>>)]] ]

\* Interpolate.interpolateToUniformGrid (PlutoTools/Tools.py): cells inside the inner
\* boundary are set to not-a-number.
Interpolate_interpolateToUniformGrid(d, variable, x_range, y_range) ==
    LET g == GriddataOnRanges(d, variable, x_range, y_range)
    IN  [g EXCEPT !.newVariable =
            [i \in DOMAIN g.grid_x |-> [j \in DOMAIN g.grid_x[i] |->
                IF InsideInnerBoundary(g.grid_x[i][j], g.grid_y[i][j])
                THEN NaN ELSE g.newVariable[i][j]]]]

\* Tools.interpolateToUniformGrid (simulationData.py): no mask.
Tools_interpolateToUniformGrid(d, variable, x_range, y_range) ==
    GriddataOnRanges(d, variable, x_range, y_range)

\* floor of a fraction.
RFloor(a) ==
    CHOOSE f \in {IF x[1] >= 0 THEN x[1] \div x[2] ELSE -((-x[1] + x[2] - 1) \div x[2])
                  : x \in {a}} : TRUE

\* The order-1 (bilinear) value of a 2-D array at the fractional index (iy, ix) that
\* lies within the array: the four cells around it, weighted.  A cell that is
\* not-a-number makes the value not-a-number, also at weight 0.
Bilinear(array, iy, ix) ==
    LET rows == Len(array)
        cols == Len(array[1])
        fy   == RFloor(iy)
        fx   == RFloor(ix)
        ty   == RAdd(iy, <<-fy, 1>>)
        tx   == RAdd(ix, <<-fx, 1>>)
        fy1  == IF fy + 1 <= rows - 1 THEN fy + 1 ELSE fy
        fx1  == IF fx + 1 <= cols - 1 THEN fx + 1 ELSE fx
        v00  == array[fy + 1][fx + 1]
        v01  == array[fy + 1][fx1 + 1]
        v10  == array[fy1 + 1][fx + 1]
        v11  == array[fy1 + 1][fx1 + 1]
        uy   == RAdd(<<1, 1>>, <<-ty[1], ty[2]>>)
        ux   == RAdd(<<1, 1>>, <<-tx[1], tx[2]>>)
        top  == RAdd(RMul(ux, v00.q), RMul(tx, v01.q))
        bot  == RAdd(RMul(ux, v10.q), RMul(tx, v11.q))
        val  == RAdd(RMul(uy, top), RMul(ty, bot))
    IN  IF v00.nan \/ v01.nan \/ v10.nan \/ v11.nan THEN NaN
        ELSE Fin(val[1], val[2])

\* An index below 0 or above the last position of an axis of n cells.
OutOfRange(n, i) == RLess(i, <<0, 1>>) \/ RLess(<<n - 1, 1>>, i)

\* An index brought to the nearest position of the axis.
ClampIndex(n, i) ==
    IF RLess(i, <<0, 1>>) THEN <<0, 1>>
    ELSE IF RLess(<<n - 1, 1>>, i) THEN <<n - 1, 1>>
    ELSE i

\* scipy.ndimage.map_coordinates(array, [[iy], [ix]], order=1) with its defaults
\* mode='constant', cval=0.0: an index outside the array gives cval.
MapCoordinatesNearest(array, iy, ix) ==
    Bilinear(array, ClampIndex(Len(array), iy), ClampIndex(Len(array[1]), ix))

MapCoordinates(array, iy, ix) ==
    IF OutOfRange(Len(array), iy) \/ OutOfRange(Len(array[1]), ix)
    THEN Fin(0, 1)
    ELSE Bilinear(array, iy, ix)

\* The fractional index interpolatePoint2D computes for point p = (x, y):
\* (row, column) = ((y - y0) * ny / (y1 - y0), (x - x0) * nx / (x1 - x0)).
FractionalIndex(x_range, y_range, p) ==
    << Frac((p[2] - y_range[1]) * y_range[3], y_range[2] - y_range[1]),
       Frac((p[1] - x_range[1]) * x_range[3], x_range[2] - x_range[1]) >>

interpolatePoint2D(x_range, y_range, array, p) ==
    LET pp == FractionalIndex(x_range, y_range, p)
    IN  MapCoordinates(array, pp[1], pp[2])

-----------------------------------------------------------------------------
(* The inputs of the grid operations *)

\* Radial and polar cell centres of a loaded mesh.
RadialTicks == {<<5, 20>>, <<10, 100>>, <<5, 10, 100>>}

PolarTicks  == {<<0, 3>>, <<0, 1, 2, 3>>}

\* A loaded variable: a + b*x + c*y at the mesh point (x, y), for coefficients <<a, b, c>>.
FieldCoefficients == {<<7, 0, 0>>, <<3, 1, 2>>}

AffineField(x1, x2, k) ==
    LET xy == polarCoordsToCartesian(x1, x2)
    IN  [i \in DOMAIN x2 |-> [j \in DOMAIN x1 |->
            Frac(k[1] + k[2] * xy.x[i][j] + k[3] * xy.y[i][j], 1)]]

\* The ranges (start, end, sampleCount) a uniform grid is asked on: 2..MaxSamples
\* samples, on [0, 60] or [4, 64].
MaxSamples == 4
Ranges == {<<s, s + 60, n>> : s \in {0, 4}, n \in 2..MaxSamples}

\* The coordinates a point is sampled at.
PointCoordinates == {0 - 10, 0, 4, 20, 30, 60, 64, 70}

GridInit ==
    /\ \E x1 \in RadialTicks, x2 \in PolarTicks, k \in FieldCoefficients :
          data = [x1 |-> x1, x2 |-> x2, variables |-> [rho |-> AffineField(x1, x2, k)]]
    /\ ugrid = NoGrid
    /\ gridret = NoSample
    /\ radret = NoResample
    /\ radcalls = 0
    /\ rotret = NoRotation
    /\ stream = NoStreamline
    /\ IonNew

\* Interpolate.interpolateToUniformGrid(data, data.variables["rho"], x_range, y_range)
GridInterpolateToUniformGrid ==
    /\ gridret.op = "none"
    /\ ugrid.by = "none"
    /\ \E x_range \in Ranges, y_range \in Ranges :
          LET g == Interpolate_interpolateToUniformGrid(data, data.variables.rho, x_range, y_range)
          IN  ugrid' = [by |-> "Interpolate", x_range |-> x_range, y_range |-> y_range,
                        grid_x |-> g.grid_x, grid_y |-> g.grid_y, newVariable |-> g.newVariable]
    /\ UNCHANGED <<data, gridret, radret, radcalls, rotret, stream, ionvars>>

\* Tools.interpolateToUniformGrid(data, data.variables["rho"], x_range, y_range)
GridToolsInterpolateToUniformGrid ==
    /\ gridret.op = "none"
    /\ ugrid.by = "none"
    /\ \E x_range \in Ranges, y_range \in Ranges :
          LET g == Tools_interpolateToUniformGrid(data, data.variables.rho, x_range, y_range)
          IN  ugrid' = [by |-> "Tools", x_range |-> x_range, y_range |-> y_range,
                        grid_x |-> g.grid_x, grid_y |-> g.grid_y, newVariable |-> g.newVariable]
    /\ UNCHANGED <<data, gridret, radret, radcalls, rotret, stream, ionvars>>

\* Interpolate.interpolatePoint2D(x_range, y_range, grid, p) on the grid and the ranges
\* it was built from.
GridInterpolatePoint2D ==
    /\ gridret.op = "none"
    /\ ugrid.by # "none"
    /\ \E px \in PointCoordinates, py \in PointCoordinates :
          gridret' = [op |-> "interpolatePoint2D", p |-> <<px, py>>,
                      index |-> FractionalIndex(ugrid.x_range, ugrid.y_range, <<px, py>>),
                      val |-> interpolatePoint2D(ugrid.x_range, ugrid.y_range,
                                                 ugrid.newVariable, <<px, py>>)]
    /\ UNCHANGED <<data, ugrid, radret, radcalls, rotret, stream, ionvars>>

\* The caller takes the sampled value and goes on.
GridReturn ==
    /\ gridret.op # "none"
    /\ gridret' = NoSample
    /\ UNCHANGED <<data, ugrid, radret, radcalls, rotret, stream, ionvars>>

\* The method that built the grid returns: its grid is gone with its locals.
GridDone ==
    /\ gridret.op = "none"
    /\ ugrid.by # "none"
    /\ ugrid' = NoGrid
    /\ UNCHANGED <<data, gridret, radret, radcalls, rotret, stream, ionvars>>

GridNext ==
    \/ GridInterpolateToUniformGrid
    \/ GridToolsInterpolateToUniformGrid
    \/ GridInterpolatePoint2D
    \/ GridReturn
    \/ GridDone

SpecGrid == GridInit /\ [][GridNext]_vars

-----------------------------------------------------------------------------
(* Interpolate.interpolateRadialGrid and Tools.interpolateRadialGrid: the fields of *)
(* a data object resampled onto new radial ticks.                                   *)

\* The order data.variables.items() yields the fields in: the order of loading.
VariableNames == <<"rho", "vx1">>

Keys(variables) == SelectSeq(VariableNames, LAMBDA k : k \in DOMAIN variables)

Min(S) == CHOOSE v \in S : \A w \in S : v <= w

Max(S) == CHOOSE v \in S : \A w \in S : v >= w

Range(f) == {f[i] : i \in DOMAIN f}

\* f = scipy.interpolate.interp1d(x, y), f(t), for ascending x: linear between the
\* two neighbours of t in x.
Interp1dAt(x, y, t) ==
    LET below == Cardinality({k \in DOMAIN x : x[k] < t})
        lo    == IF below < 1 THEN 1 ELSE IF below > Len(x) - 1 THEN Len(x) - 1 ELSE below
        hi    == lo + 1
        slope == RMul(RAdd(y[hi], <<0 - y[lo][1], y[lo][2]>>), Frac(1, x[hi] - x[lo]))
    IN  RAdd(RMul(slope, <<t - x[lo], 1>>), y[lo])

\* The same with bounds_error=False and the edge values as fill: a tick below or
\* above x takes the value at the first or the last of x.
Interp1dFillEdge(x, y, newTicks) ==
    IF Len(x) # Len(y) \/ Len(x) = 0
    THEN [raised |-> "ValueError", val |-> <<>>]
    ELSE [raised |-> "none",
          val |-> [i \in DOMAIN newTicks |->
                     IF newTicks[i] < Min(Range(x)) THEN y[1]
                     ELSE IF newTicks[i] > Max(Range(x)) THEN y[Len(y)]
                     ELSE Interp1dAt(x, y, newTicks[i])]]

\* The same with fill_value="extrapolate": a tick below or above x continues the
\* first or the last segment.
Interp1dExtrapolate(x, y, newTicks) ==
    IF Len(x) # Len(y) \/ Len(x) = 0
    THEN [raised |-> "ValueError", val |-> <<>>]
    ELSE [raised |-> "none", val |-> [i \in DOMAIN newTicks |-> Interp1dAt(x, y, newTicks[i])]]

\* scipy.interpolate.interp1d(x, y)(newTicks): a ValueError when x and y differ in
\* length, and, by the default bounds_error, when a tick lies below or above x.
Interp1d(x, y, newTicks) ==
    IF Len(x) # Len(y) \/ Len(x) = 0
    THEN [raised |-> "ValueError", val |-> <<>>]
    ELSE IF \E i \in DOMAIN newTicks : newTicks[i] < Min(Range(x)) \/ newTicks[i] > Max(Range(x))
    THEN [raised |-> "ValueError", val |-> <<>>]
    ELSE [raised |-> "none", val |-> [i \in DOMAIN newTicks |-> Interp1dAt(x, y, newTicks[i])]]

\* One turn of the loop over the fields: every row of the field interpolated, the
\* field then replaced.  The first row that raises ends the call, the field unreplaced.
ResampleField(x1, value, newTicks) ==
    LET rows == [i \in DOMAIN value |-> Interp1d(x1, value[i], newTicks)]
    IN  IF \E i \in DOMAIN rows : rows[i].raised # "none"
        THEN [raised |-> "ValueError", val |-> value]
        ELSE [raised |-> "none", val |-> [i \in DOMAIN rows |-> rows[i].val]]

\* The loop over the fields from the n-th of keys on: fields before the one that
\* raises stay replaced.
RECURSIVE ResampleFields(_, _, _, _, _)
ResampleFields(x1, variables, keys, n, newTicks) ==
    IF n > Len(keys) THEN [raised |-> "none", variables |-> variables]
    ELSE LET r == ResampleField(x1, variables[keys[n]], newTicks)
         IN  IF r.raised # "none" THEN [raised |-> r.raised, variables |-> variables]
             ELSE ResampleFields(x1, [variables EXCEPT ![keys[n]] = r.val], keys, n + 1, newTicks)

\* The same, data.x1 left as it was.
interpolateRadialGridKeepsTicks(d, newTicks) ==
    LET r == ResampleFields(d.x1, d.variables, Keys(d.variables), 1, newTicks)
    IN  [raised |-> r.raised, data |-> [d EXCEPT !.variables = r.variables]]

\* The same, data.x1 = newTicks ahead of the loop over the fields.
interpolateRadialGridTicksFirst(d, newTicks) ==
    LET r == ResampleFields(d.x1, d.variables, Keys(d.variables), 1, newTicks)
    IN  [raised |-> r.raised, data |-> [d EXCEPT !.variables = r.variables, !.x1 = newTicks]]

\* interpolateRadialGrid(data, newTicks): the fields resampled in place, then
\* data.x1 = newTicks.
interpolateRadialGrid(d, newTicks) ==
    LET r == ResampleFields(d.x1, d.variables, Keys(d.variables), 1, newTicks)
    IN  IF r.raised # "none"
        THEN [raised |-> r.raised, data |-> [d EXCEPT !.variables = r.variables]]
        ELSE [raised |-> "none", data |-> [d EXCEPT !.variables = r.variables, !.x1 = newTicks]]

-----------------------------------------------------------------------------
(* The inputs of the radial resampling *)

\* The radii a tick can lie at, and the ascending tick arrays over them of 2 to
\* MaxTicks ticks.
TickValues == {5, 10, 20, 30, 40}

MaxTicks == 3

\* The number of calls of interpolateRadialGrid a data object is followed through.
MaxCalls == 3

TickArrays == {Ascending(S) : S \in {T \in SUBSET TickValues :
                                        Cardinality(T) >= 2 /\ Cardinality(T) <= MaxTicks}}

\* The radial cell centres of a loaded mesh.
LoadedTicks == {<<5, 20, 40>>, <<10, 20, 30>>, <<5, 10, 20, 40>>}

\* A loaded variable: a + b*r*r + i in row i at radius r, for coefficients <<a, b>>.
QuadraticField(x1, x2, k) ==
    [i \in DOMAIN x2 |-> [j \in DOMAIN x1 |-> Frac(k[1] + k[2] * x1[j] * x1[j] + i, 1)]]

RadialInit ==
    /\ \E x1 \in LoadedTicks, x2 \in PolarTicks :
          data = [x1 |-> x1, x2 |-> x2,
                  variables |-> [rho |-> QuadraticField(x1, x2, <<1, 1>>),
                                 vx1 |-> QuadraticField(x1, x2, <<0, 2>>)]]
    /\ radret = NoResample
    /\ radcalls = 0
    /\ rotret = NoRotation
    /\ stream = NoStreamline
    /\ ugrid = NoGrid
    /\ gridret = NoSample
    /\ IonNew

\* data = Interpolate.interpolateRadialGrid(data, newTicks)   (PlutoTools/Tools.py)
RadialInterpolateRadialGrid ==
    /\ radret.op = "none"
    /\ radcalls < MaxCalls
    /\ radcalls' = radcalls + 1
    /\ \E newTicks \in TickArrays :
          LET r == interpolateRadialGrid(data, newTicks)
          IN  /\ data' = r.data
              /\ radret' = [op |-> "Interpolate.interpolateRadialGrid",
                            newTicks |-> newTicks, raised |-> r.raised, before |-> data]
    /\ UNCHANGED <<ugrid, gridret, rotret, stream, ionvars>>

\* Tools.interpolateRadialGrid(data, newTicks)   (simulationData.py)
RadialToolsInterpolateRadialGrid ==
    /\ radret.op = "none"
    /\ radcalls < MaxCalls
    /\ radcalls' = radcalls + 1
    /\ \E newTicks \in TickArrays :
          LET r == interpolateRadialGrid(data, newTicks)
          IN  /\ data' = r.data
              /\ radret' = [op |-> "Tools.interpolateRadialGrid",
                            newTicks |-> newTicks, raised |-> r.raised, before |-> data]
    /\ UNCHANGED <<ugrid, gridret, rotret, stream, ionvars>>

\* The caller goes on: after the call, or after the ValueError it caught.
RadialReturn ==
    /\ radret.op # "none"
    /\ radret' = NoResample
    /\ UNCHANGED <<data, ugrid, gridret, radcalls, rotret, stream, ionvars>>

RadialNext ==
    \/ RadialInterpolateRadialGrid
    \/ RadialToolsInterpolateRadialGrid
    \/ RadialReturn

SpecRadial == RadialInit /\ [][RadialNext]_vars

-----------------------------------------------------------------------------
(* Transform.transform...ToCylindrical and Tools.transform...ToCylindrical: the     *)
(* radial and polar components of a vector field rotated to cylindrical ones.       *)

\* The shape of a 2-D array (of at least one row).
Shape(m) == <<Len(m), Len(m[1])>>

\* np.transpose(np.tile(x2, (len(x1), 1))): of shape (len(x2), len(x1)), row i all x2[i].
TiledAngles(x1, x2) == [i \in DOMAIN x2 |-> [j \in DOMAIN x1 |-> x2[i]]]

\* numpy's rule for an elementwise operation on arrays of the shapes s and t: an
\* extent of the one must equal the extent of the other, or one of the two be 1.
Broadcastable(s, t) ==
    \A a \in 1..2 : s[a] = t[a] \/ s[a] = 1 \/ t[a] = 1

\* The shape of the result: of each extent the one that is not 1, if any.
BroadcastShape(s, t) == [a \in 1..2 |-> IF s[a] = 1 THEN t[a] ELSE s[a]]

\* The element of a that the element (i, j) of the result is computed from: an extent
\* of 1 is repeated.
BroadcastAt(a, i, j) ==
    a[IF Len(a) = 1 THEN 1 ELSE i][IF Len(a[1]) = 1 THEN 1 ELSE j]

\* np.sin and np.cos of an angle of the mesh.
SinOf(k) == Frac(Sin5(k), 5)

CosOf(k) == Frac(Cos5(k), 5)

\* A rotation proper, in place of the two statements below:
\*   c1 * sin(x2) + c2 * cos(x2),   c2 * sin(x2) - c1 * cos(x2).
RotateToCylindricalTurning(x1, x2, c1, c2) ==
    LET angles == TiledAngles(x1, x2)
        p1     == BroadcastShape(Shape(c1), Shape(angles))
        p2     == BroadcastShape(Shape(c2), Shape(angles))
        out    == BroadcastShape(p1, p2)
        S(i, j) == SinOf(BroadcastAt(angles, i, j))
        C(i, j) == CosOf(BroadcastAt(angles, i, j))
        Neg(q)  == <<0 - q[1], q[2]>>
    IN  IF ~ (/\ Broadcastable(Shape(c1), Shape(angles))
              /\ Broadcastable(Shape(c2), Shape(angles))
              /\ Broadcastable(p1, p2))
        THEN [raised |-> "ValueError", val |-> <<>>]
        ELSE [raised |-> "none",
              val |-> << [i \in 1..out[1] |-> [j \in 1..out[2] |->
                            RAdd(RMul(BroadcastAt(c1, i, j), S(i, j)),
                                 RMul(BroadcastAt(c2, i, j), C(i, j)))]],
                         [i \in 1..out[1] |-> [j \in 1..out[2] |->
                            RAdd(RMul(BroadcastAt(c2, i, j), S(i, j)),
                                 Neg(RMul(BroadcastAt(c1, i, j), C(i, j))))]] >>]

\* The two statements the four functions share:
\*   c1 * sin(x2) + c2 * cos(x2),   c1 * cos(x2) - c2 * sin(x2),
\* each product and each sum an elementwise operation that raises a ValueError on
\* shapes that cannot be broadcast.
RotateToCylindrical(x1, x2, c1, c2) ==
    LET angles == TiledAngles(x1, x2)
        p1     == BroadcastShape(Shape(c1), Shape(angles))
        p2     == BroadcastShape(Shape(c2), Shape(angles))
        out    == BroadcastShape(p1, p2)
        S(i, j) == SinOf(BroadcastAt(angles, i, j))
        C(i, j) == CosOf(BroadcastAt(angles, i, j))
        Neg(q)  == <<0 - q[1], q[2]>>
    IN  IF ~ (/\ Broadcastable(Shape(c1), Shape(angles))
              /\ Broadcastable(Shape(c2), Shape(angles))
              /\ Broadcastable(p1, p2))
        THEN [raised |-> "ValueError", val |-> <<>>]
        ELSE [raised |-> "none",
              val |-> << [i \in 1..out[1] |-> [j \in 1..out[2] |->
                            RAdd(RMul(BroadcastAt(c1, i, j), S(i, j)),
                                 RMul(BroadcastAt(c2, i, j), C(i, j)))]],
                         [i \in 1..out[1] |-> [j \in 1..out[2] |->
                            RAdd(RMul(BroadcastAt(c1, i, j), C(i, j)),
                                 Neg(RMul(BroadcastAt(c2, i, j), S(i, j))))]] >>]

-----------------------------------------------------------------------------
(* The inputs of the rotation *)

\* The meshes of a data object whose vector fields are rotated.
RotationRadialTicks == {<<5, 20>>, <<5, 10, 100>>}

\* The extents a component field can have where the mesh has n cells: n, 1 (an extent
\* numpy broadcasts), and up to MaxExtra more than n.
MaxExtra == 1

Extents(n) == {1} \cup (n..(n + MaxExtra))

\* A component field of the shape (rows, cols): the value a + i + 2*j at (i, j).
ComponentField(rows, cols, a) ==
    [i \in 1..rows |-> [j \in 1..cols |-> Frac(a + i + 2 * j, 1)]]

RotateInit ==
    /\ \E x1 \in RotationRadialTicks, x2 \in PolarTicks :
         \E r1 \in Extents(Len(x2)), k1 \in Extents(Len(x1)),
            r2 \in Extents(Len(x2)), k2 \in Extents(Len(x1)) :
             data = [x1 |-> x1, x2 |-> x2,
                     variables |-> [vx1 |-> ComponentField(r1, k1, 0),
                                    vx2 |-> ComponentField(r2, k2, 3),
                                    bx1 |-> ComponentField(r2, k2, 1),
                                    bx2 |-> ComponentField(r1, k1, 5)]]
    /\ rotret = NoRotation
    /\ radret = NoResample
    /\ radcalls = 0
    /\ stream = NoStreamline
    /\ ugrid = NoGrid
    /\ gridret = NoSample
    /\ IonNew

\* vx1_t, vx2_t = Transform(data).transformVelocityFieldToCylindrical()
RotateTransformVelocity ==
    /\ rotret.op = "none"
    /\ LET r == RotateToCylindrical(data.x1, data.x2, data.variables.vx1, data.variables.vx2)
       IN  rotret' = [op |-> "Transform.transformVelocityFieldToCylindrical",
                      raised |-> r.raised, val |-> r.val, before |-> data]
    /\ UNCHANGED <<data, ugrid, gridret, radret, radcalls, stream, ionvars>>

\* bx1_t, bx2_t = Transform(data).transformMagneticFieldToCylindrical()
RotateTransformMagnetic ==
    /\ rotret.op = "none"
    /\ LET r == RotateToCylindrical(data.x1, data.x2, data.variables.bx1, data.variables.bx2)
       IN  rotret' = [op |-> "Transform.transformMagneticFieldToCylindrical",
                      raised |-> r.raised, val |-> r.val, before |-> data]
    /\ UNCHANGED <<data, ugrid, gridret, radret, radcalls, stream, ionvars>>

\* Tools.transformVelocityFieldToCylindrical(data): vx1 and vx2 replaced in place.  The
\* two statements raise together or not at all, so a call that raises assigns nothing.
RotateToolsTransformVelocity ==
    /\ rotret.op = "none"
    /\ LET r == RotateToCylindrical(data.x1, data.x2, data.variables.vx1, data.variables.vx2)
       IN  /\ rotret' = [op |-> "Tools.transformVelocityFieldToCylindrical",
                         raised |-> r.raised, val |-> r.val, before |-> data]
           /\ data' = IF r.raised # "none" THEN data
                      ELSE [data EXCEPT !.variables.vx1 = r.val[1], !.variables.vx2 = r.val[2]]
    /\ UNCHANGED <<ugrid, gridret, radret, radcalls, stream, ionvars>>

\* Tools.transformMagneticFieldToCylindrical(data): bx1 and bx2 replaced in place.
RotateToolsTransformMagnetic ==
    /\ rotret.op = "none"
    /\ LET r == RotateToCylindrical(data.x1, data.x2, data.variables.bx1, data.variables.bx2)
       IN  /\ rotret' = [op |-> "Tools.transformMagneticFieldToCylindrical",
                         raised |-> r.raised, val |-> r.val, before |-> data]
           /\ data' = IF r.raised # "none" THEN data
                      ELSE [data EXCEPT !.variables.bx1 = r.val[1], !.variables.bx2 = r.val[2]]
    /\ UNCHANGED <<ugrid, gridret, radret, radcalls, stream, ionvars>>

\* The caller takes the result, or catches the ValueError, and goes on.
RotateReturn ==
    /\ rotret.op # "none"
    /\ rotret' = NoRotation
    /\ UNCHANGED <<data, ugrid, gridret, radret, radcalls, stream, ionvars>>

RotateNext ==
    \/ RotateTransformVelocity
    \/ RotateTransformMagnetic
    \/ RotateToolsTransformVelocity
    \/ RotateToolsTransformMagnetic
    \/ RotateReturn

SpecRotate == RotateInit /\ [][RotateNext]_vars

-----------------------------------------------------------------------------
(* Compute.computeStreamline: a point carried along a velocity field, held on a     *)
(* uniform grid, until the speed sampled at it is no longer above a limit.          *)
(*                                                                                  *)
(* A step of the integrator (vode, one internal step) carries the position p to     *)
(* p + h * v(p), v(p) the velocity singlePointInterpolation samples at p and h a    *)
(* step size of the integrator's choosing.  Velocities are multiples of the grid    *)
(* spacing, so that a position stays on the lattice of the grid nodes.              *)

\* The fractional index singlePointInterpolation computes for point p = (x, y).
SinglePointIndexSwapped(x_range, y_range, p) ==
    << Frac((p[1] - x_range[1]) * x_range[3], x_range[2] - x_range[1]),
       Frac((p[2] - y_range[1]) * y_range[3], y_range[2] - y_range[1]) >>

SinglePointIndex(x_range, y_range, p) ==
    << Frac((p[2] - y_range[1]) * y_range[3], y_range[2] - y_range[1]),
       Frac((p[1] - x_range[1]) * x_range[3], x_range[2] - x_range[1]) >>

\* singlePointInterpolation(t, p, vx1, vx2, x_range, y_range): the two components
\* sampled at p.
singlePointInterpolation(p, vx1, vx2, x_range, y_range) ==
    LET pp == SinglePointIndex(x_range, y_range, p)
    IN  << MapCoordinates(vx1, pp[1], pp[2]), MapCoordinates(vx2, pp[1], pp[2]) >>

\* The integer square root.
ISqrt(n) == CHOOSE k \in 0..n : k * k <= n /\ (k + 1) * (k + 1) > n

\* vabs = np.sqrt(vx1**2 + vx2**2)
Vabs(vx1, vx2) ==
    [i \in DOMAIN vx1 |-> [j \in DOMAIN vx1[i] |->
        IF vx1[i][j].nan \/ vx2[i][j].nan THEN NaN
        ELSE Fin(ISqrt(vx1[i][j].q[1] * vx1[i][j].q[1] + vx2[i][j].q[1] * vx2[i][j].q[1]), 1)]]

\* The loop condition: interpolatePoint2D(x_range, y_range, vabs, solver.y) > limit.
\* A comparison with not-a-number is false.
SpeedAt(st, p) == interpolatePoint2D(st.x_range, st.y_range, st.vabs, p)

AboveLimitInverted(v, limit) == ~ v.nan /\ RLess(v.q, <<limit, 1>>)

\* The comparison >= in place of >.
AboveLimitOrEqual(v, limit) == ~ v.nan /\ ~ RLess(v.q, <<limit, 1>>)

AboveLimit(v, limit) == ~ v.nan /\ RLess(<<limit, 1>>, v.q)

\* list.append(v), and the same at the front of the list.
ListPrepend(l, v) == <<v>> \o l

ListAppend(l, v) == Append(l, v)

\* solver.integrate(t1, step=True) from p with the step size h.
Integrate(st, p, h) ==
    LET v == singlePointInterpolation(p, st.vx1, st.vx2, st.x_range, st.y_range)
    IN  << p[1] + (h * v[1].q[1]) \div v[1].q[2], p[2] + (h * v[2].q[1]) \div v[2].q[2] >>

-----------------------------------------------------------------------------
(* The inputs of computeStreamline *)

\* The ranges of the velocity grid: 3 columns from x = 10, 3 rows from y = 0, in the
\* index mapping of interpolatePoint2D 10 apart.
StreamXRange == <<10, 40, 3>>

StreamYRange == <<0, 30, 3>>

\* The velocity fields, by name; (vx1, vx2) at row i, column j.
\*   outflow: to larger x everywhere;   vortex: round the four cells of rows and
\*   columns 1, 2;   masked: to smaller x, the first column not-a-number (the mask of
\*   interpolateToUniformGrid);   slowing: to larger x, slower from column to column.
FlowNames == {"outflow", "vortex", "masked", "slowing"}

FlowAt(name, i, j) ==
    CASE name = "outflow" -> <<Fin(10, 1), Fin(0, 1)>>
      [] name = "vortex"  -> CASE <<i, j>> = <<1, 1>> -> <<Fin(10, 1), Fin(0, 1)>>
                               [] <<i, j>> = <<1, 2>> -> <<Fin(0, 1), Fin(10, 1)>>
                               [] <<i, j>> = <<2, 2>> -> <<Fin(0 - 10, 1), Fin(0, 1)>>
                               [] <<i, j>> = <<2, 1>> -> <<Fin(0, 1), Fin(0 - 10, 1)>>
                               [] OTHER -> <<Fin(0, 1), Fin(0, 1)>>
      [] name = "masked"  -> IF j = 1 THEN <<NaN, NaN>> ELSE <<Fin(0 - 10, 1), Fin(0, 1)>>
      [] name = "slowing" -> <<Fin(10 * (3 - j), 1), Fin(0, 1)>>

FlowField(name, c) == [i \in 1..3 |-> [j \in 1..3 |-> FlowAt(name, i, j)[c]]]

\* The seed points: the nodes of the grid and the points of the next column beyond it.
Seeds == {10, 20, 30, 40} \X {0, 10, 20}

\* The speed limits.
Limits == {0, 5, 15}

\* The step sizes of the integrator.
MaxStepSize == 2

StepSizes == 1..MaxStepSize

\* The lists x and y are followed up to MaxPath positions; a step beyond appends to
\* them in the code and leaves them with the mark "overflow" here.  (steps: the
\* number of integration steps taken, counted as far as the lists are followed.)
MaxPath == 4

\* computeStreamline at its loop, the solver set up at the seed, x and y empty.
StreamInit ==
    /\ \E name \in FlowNames, point \in Seeds, limit \in Limits :
          stream = [pc |-> "while", point |-> point, limit |-> limit,
                    vx1 |-> FlowField(name, 1), vx2 |-> FlowField(name, 2),
                    x_range |-> StreamXRange, y_range |-> StreamYRange,
                    vabs |-> Vabs(FlowField(name, 1), FlowField(name, 2)),
                    solver_y |-> point, x |-> <<>>, y |-> <<>>, overflow |-> FALSE,
                    steps |-> 0,
                    tested |-> <<>>, stepped |-> <<>>, result |-> <<>>]
    /\ data = NoData
    /\ ugrid = NoGrid
    /\ gridret = NoSample
    /\ radret = NoResample
    /\ radcalls = 0
    /\ rotret = NoRotation
    /\ IonNew

\* while interpolatePoint2D(x_range, y_range, vabs, (solver.y[0], solver.y[1])) > limit:
\* the condition holds.  (tested: the point of the test and its fractional index.)
StreamWhileTrue ==
    /\ stream.pc = "while"
    /\ AboveLimit(SpeedAt(stream, stream.solver_y), stream.limit)
    /\ stream' = [stream EXCEPT
            !.pc = "body",
            !.tested = <<stream.solver_y,
                         FractionalIndex(stream.x_range, stream.y_range, stream.solver_y)>>]
    /\ UNCHANGED <<data, ugrid, gridret, radret, radcalls, rotret, ionvars>>

\* The condition fails: print(solver.y); return solver.y[0], potential   (potential = 0.0)
StreamWhileFalse ==
    /\ stream.pc = "while"
    /\ ~ AboveLimit(SpeedAt(stream, stream.solver_y), stream.limit)
    /\ stream' = [stream EXCEPT
            !.pc = "returned",
            !.tested = <<stream.solver_y,
                         FractionalIndex(stream.x_range, stream.y_range, stream.solver_y)>>,
            !.result = <<stream.solver_y[1], 0>>]
    /\ UNCHANGED <<data, ugrid, gridret, radret, radcalls, rotret, ionvars>>

\* The body of the loop: solver.integrate(t1, step=True); x.append(solver.y[0]);
\* y.append(solver.y[1]).  (stepped: the point the integrand was sampled at and its
\* fractional index.)
StreamBody ==
    /\ stream.pc = "body"
    /\ \E h \in StepSizes :
          LET q == Integrate(stream, stream.solver_y, h)
              full == Len(stream.x) >= MaxPath
          IN  stream' = [stream EXCEPT
                  !.pc = "while",
                  !.solver_y = q,
                  !.x = IF full THEN @ ELSE ListAppend(@, q[1]),
                  !.y = IF full THEN @ ELSE ListAppend(@, q[2]),
                  !.overflow = full,
                  !.steps = IF full THEN @ ELSE @ + 1,
                  !.stepped = <<stream.solver_y,
                                SinglePointIndex(stream.x_range, stream.y_range, stream.solver_y)>>]
    /\ UNCHANGED <<data, ugrid, gridret, radret, radcalls, rotret, ionvars>>

StreamNext ==
    \/ StreamWhileTrue
    \/ StreamWhileFalse
    \/ StreamBody

SpecStream == StreamInit /\ [][StreamNext]_vars

\* The loop is the only thread of its process: it goes on whenever it can.
SpecStreamFair == StreamInit /\ [][StreamNext]_vars /\ WF_vars(StreamNext)

-----------------------------------------------------------------------------
(* Properties of the ion table *)

BracketOps == {"getIndicesForTempValue", "getIndicesForZetaValue", "getIndicesForNnValue"}

\* The axis a bracket search works on.
AxisArray(op) ==
    CASE op = "getIndicesForTempValue" -> collection.temp_array
      [] op = "getIndicesForZetaValue" -> collection.zeta_array
      [] op = "getIndicesForNnValue"   -> collection.nn_array

BracketReturned == ionpc = "built" /\ ionret.op \in BracketOps

LookupReturned == ionpc = "built" /\ ionret.op = "interpolateIonFraction"

\* Equal steps between all neighbours of an axis.
UniformAxis(a) == \A i \in 1..(Len(a) - 1) : a[i + 1] - a[i] = a[2] - a[1]

UniformTable ==
    /\ UniformAxis(collection.temp_array)
    /\ UniformAxis(collection.zeta_array)
    /\ UniformAxis(collection.nn_array)

OnAxis(a, x) == \E i \in DOMAIN a : a[i] = x

\* The 0-based position of x on axis a.
PosOn(a, x) == (CHOOSE i \in DOMAIN a : a[i] = x) - 1

\* What the cube holds at a position: the value written there, else the initial 0.
Stored(i, j, k) ==
    IF <<i, j, k>> \in DOMAIN collection.data.cells
    THEN collection.data.cells[<<i, j, k>>] ELSE 0

\* C1: on each of the three axes of a built table, the bracket search at the axis
\* start returns (0, 0) and at the axis end returns (N-1, N-1), N the number of
\* entries of the axis.
C1_ClampAtAxisEnds ==
    BracketReturned =>
        LET a == AxisArray(ionret.op)
            x == ionret.args[1]
        IN  /\ x = a[1] => ionret.raised = "none" /\ ionret.val = <<0, 0>>
            /\ x = a[Len(a)] =>
                   ionret.raised = "none" /\ ionret.val = <<Len(a) - 1, Len(a) - 1>>

C1_Witness ==
    /\ BracketReturned
    /\ ionret.op = "getIndicesForNnValue"
    /\ Len(collection.nn_array) = 3
    /\ ionret.args[1] = collection.nn_array[3]
    /\ ionret.val = <<2, 2>>

\* A bracket search returned positions l <= r of the axis with a[l] <= x <= a[r].
Brackets(a, x) ==
    /\ ionret.raised = "none"
    /\ LET l == ionret.val[1]
           r == ionret.val[2]
       IN  /\ l \in 0..(Len(a) - 1)
           /\ r \in 0..(Len(a) - 1)
           /\ l <= r
           /\ a[l + 1] <= x
           /\ x <= a[r + 1]

StrictlyInside(a, x) == a[1] < x /\ x < a[Len(a)]

\* C2 as stated: for any axis of a built table, uniformly spaced or not, and any
\* query strictly between the axis start and end, the bracket search returns valid
\* positions left <= right with axisValue[left] <= x <= axisValue[right].
C2_BracketsOnAnyAxis ==
    BracketReturned =>
        LET a == AxisArray(ionret.op)
            x == ionret.args[1]
        IN  StrictlyInside(a, x) => Brackets(a, x)

\* C2 amended: the same, for every axis whose values are uniformly spaced.
C2_BracketsOnUniformAxis ==
    BracketReturned =>
        LET a == AxisArray(ionret.op)
            x == ionret.args[1]
        IN  (UniformAxis(a) /\ StrictlyInside(a, x)) => Brackets(a, x)

C2_Witness ==
    /\ BracketReturned
    /\ ionret.op = "getIndicesForTempValue"
    /\ LET a == collection.temp_array
       IN  /\ Len(a) >= 3
           /\ UniformAxis(a)
           /\ StrictlyInside(a, ionret.args[1])
           /\ ~OnAxis(a, ionret.args[1])
           /\ ionret.val[1] >= 1
           /\ ionret.val[2] = ionret.val[1] + 1

\* A lookup was asked at a node of the table in all three coordinates.
AtCorner ==
    /\ OnAxis(collection.temp_array, Log10x2(ionret.args[1]))
    /\ OnAxis(collection.zeta_array, Log10x2(ionret.args[2]))
    /\ OnAxis(collection.nn_array, Log10x2(ionret.args[3]))

ReturnsCornerValue ==
    /\ ionret.raised = "none"
    /\ ionret.val = <<Stored(PosOn(collection.temp_array, Log10x2(ionret.args[1])),
                         PosOn(collection.zeta_array, Log10x2(ionret.args[2])),
                         PosOn(collection.nn_array, Log10x2(ionret.args[3]))), 1>>

\* C3 as stated: a lookup exactly at the coordinates of a corner of a table cell
\* returns exactly the value the cube holds at that corner.
C3_CornerValue == (LookupReturned /\ AtCorner) => ReturnsCornerValue

\* C3 amended: the same, for a table whose three axes are uniformly spaced.
C3_CornerValueUniform == (LookupReturned /\ UniformTable /\ AtCorner) => ReturnsCornerValue

C3_Witness ==
    /\ LookupReturned /\ UniformTable /\ AtCorner
    /\ Len(collection.temp_array) >= 4
    /\ LET i == PosOn(collection.temp_array, Log10x2(ionret.args[1]))
           j == PosOn(collection.zeta_array, Log10x2(ionret.args[2]))
           k == PosOn(collection.nn_array, Log10x2(ionret.args[3]))
       IN  /\ i = 2 /\ j = 1 /\ k = 0
           /\ Stored(i, j, k) # 0
           /\ Stored(i, j, k) # Stored(i, k, j)
           /\ ionret.val = <<Stored(i, j, k), 1>>

\* A lookup was asked at nodes in the ionization rate and the density and strictly
\* between the neighbouring temperature nodes i and i+1 (0-based).
BetweenTempNodes(i) ==
    /\ i + 2 <= Len(collection.temp_array)
    /\ collection.temp_array[i + 1] < Log10x2(ionret.args[1])
    /\ Log10x2(ionret.args[1]) < collection.temp_array[i + 2]
    /\ OnAxis(collection.zeta_array, Log10x2(ionret.args[2]))
    /\ OnAxis(collection.nn_array, Log10x2(ionret.args[3]))

\* (1-w)*a + w*b for w the fraction of the way from temperature node i to i+1.
TempBlend(i) ==
    LET x  == Log10x2(ionret.args[1])
        x0 == collection.temp_array[i + 1]
        x1 == collection.temp_array[i + 2]
        j  == PosOn(collection.zeta_array, Log10x2(ionret.args[2]))
        k  == PosOn(collection.nn_array, Log10x2(ionret.args[3]))
    IN  Frac(Stored(i, j, k) * (x1 - x) + Stored(i + 1, j, k) * (x - x0), x1 - x0)

\* C4 as stated: with the ionization rate and the density on nodes and the log
\* temperature at fraction w between two neighbouring nodes holding a and b, the
\* lookup returns (1-w)*a + w*b (at the midpoint of 0.1 and 0.2: 0.15).
C4_TemperatureBlend ==
    LookupReturned =>
        \A i \in 0..(Len(collection.temp_array) - 2) :
            BetweenTempNodes(i) => ionret.raised = "none" /\ ionret.val = TempBlend(i)

\* C4 amended: the same, for a table whose three axes are uniformly spaced.
C4_TemperatureBlendUniform ==
    (LookupReturned /\ UniformTable) =>
        \A i \in 0..(Len(collection.temp_array) - 2) :
            BetweenTempNodes(i) => ionret.raised = "none" /\ ionret.val = TempBlend(i)

\* The midpoint of two different stored values a and b, returned as (a + b) / 2.
C4_Witness ==
    /\ LookupReturned /\ UniformTable
    /\ BetweenTempNodes(1)
    /\ LET x  == Log10x2(ionret.args[1])
           j  == PosOn(collection.zeta_array, Log10x2(ionret.args[2]))
           k  == PosOn(collection.nn_array, Log10x2(ionret.args[3]))
       IN  /\ x - collection.temp_array[2] = collection.temp_array[3] - x
           /\ Stored(1, j, k) # Stored(2, j, k)
           /\ Stored(1, j, k) # 0 /\ Stored(2, j, k) # 0
           /\ ionret.raised = "none"
           /\ ionret.val = Frac(Stored(1, j, k) + Stored(2, j, k), 2)

\* The sample value whose log10 is the axis value k.
Pow10x2(k) == CHOOSE v \in RawT : Log10x2(v) = k

\* A coordinate below its axis start replaced by the start, above its end by the end.
ClampToAxis(v, a) ==
    IF Log10x2(v) < a[1] THEN Pow10x2(a[1])
    ELSE IF Log10x2(v) > a[Len(a)] THEN Pow10x2(a[Len(a)])
    ELSE v

OutsideAxis(v, a) == Log10x2(v) < a[1] \/ Log10x2(v) > a[Len(a)]

\* C5: replacing any coordinates of a query that lie below their axis start by the
\* start, or above their axis end by the end, leaves the result of the lookup unchanged.
C5_EdgeClamped ==
    LookupReturned =>
        \A m \in SUBSET {1, 2, 3} :
            LET t == IF 1 \in m THEN ClampToAxis(ionret.args[1], collection.temp_array)
                     ELSE ionret.args[1]
                z == IF 2 \in m THEN ClampToAxis(ionret.args[2], collection.zeta_array)
                     ELSE ionret.args[2]
                n == IF 3 \in m THEN ClampToAxis(ionret.args[3], collection.nn_array)
                     ELSE ionret.args[3]
                c == interpolateIonFraction(collection, t, z, n)
            IN  \/ <<t, z, n>> = ionret.args
                \/ c.raised = ionret.raised /\ c.val = ionret.val

C5_Witness ==
    /\ LookupReturned
    /\ Log10x2(ionret.args[1]) < collection.temp_array[1]
    /\ ionret.args[1] # 0
    /\ Log10x2(ionret.args[3]) > collection.nn_array[Len(collection.nn_array)]
    /\ ~OutsideAxis(ionret.args[2], collection.zeta_array)
    /\ ~OnAxis(collection.zeta_array, Log10x2(ionret.args[2]))
    /\ ionret.raised = "none"
    /\ ionret.val[1] # 0

StrictlyIncreasing(a) == \A i \in 1..(Len(a) - 1) : a[i] < a[i + 1]

\* C6: once loadIonData has run, each of temp_array, zeta_array and nn_array is
\* strictly increasing (so holds no value twice), whatever the samples.
C6_AxesStrictlyIncreasing ==
    ionpc # "new" =>
        /\ StrictlyIncreasing(collection.temp_array)
        /\ StrictlyIncreasing(collection.zeta_array)
        /\ StrictlyIncreasing(collection.nn_array)

\* Each temperature of the file occurs in several samples: the axis holds it once.
C6_Witness ==
    /\ ionpc = "built"
    /\ collection.temp_array = <<0, 1, 2, 3, 4>>
    /\ Len(collection.zeta_array) = 3
    /\ Len(collection.nn_array) = 3
    /\ Cardinality(DOMAIN collection.data.cells) = 45

-----------------------------------------------------------------------------
(* Properties of the uniform grid and of the point sampler *)

GridBuilt == ugrid.by # "none"

Cells == {<<i, j>> \in (1..MaxSamples + 1) \X (1..MaxSamples + 1) :
             GridBuilt /\ i \in DOMAIN ugrid.grid_x /\ j \in DOMAIN ugrid.grid_x[i]}

SampleReturned == gridret.op = "interpolatePoint2D"

\* C7: in any grid interpolateToUniformGrid produced, every cell whose centre lies
\* inside the inner boundary (sqrt(x^2 + y^2) < 1.0) holds not-a-number.
C7_InnerCellsAreNaN ==
    \A c \in Cells :
        InsideInnerBoundary(ugrid.grid_x[c[1]][c[2]], ugrid.grid_y[c[1]][c[2]])
            => ugrid.newVariable[c[1]][c[2]].nan

\* The same of the grids of Interpolate.interpolateToUniformGrid alone.
C7_InnerCellsAreNaNInterpolate ==
    ugrid.by = "Interpolate" => C7_InnerCellsAreNaN

\* A grid of Interpolate.interpolateToUniformGrid with a cell inside the inner boundary
\* that lies in the hull of the mesh, where griddata had a finite value.
C7_Witness ==
    /\ ugrid.by = "Interpolate"
    /\ \E c \in Cells :
          /\ InsideInnerBoundary(ugrid.grid_x[c[1]][c[2]], ugrid.grid_y[c[1]][c[2]])
          /\ ~ Tools_interpolateToUniformGrid(data, data.variables.rho, ugrid.x_range,
                                              ugrid.y_range).newVariable[c[1]][c[2]].nan

SampleOutOfRange ==
    /\ SampleReturned
    /\ \/ OutOfRange(Len(ugrid.newVariable), gridret.index[1])
       \/ OutOfRange(Len(ugrid.newVariable[1]), gridret.index[2])

\* C8 as stated: a point whose fractional index falls outside the array is given the
\* value at the nearest grid edge (its index clamped into the array).
C8_OutOfRangeClamped ==
    SampleOutOfRange =>
        gridret.val = Bilinear(ugrid.newVariable,
                               ClampIndex(Len(ugrid.newVariable), gridret.index[1]),
                               ClampIndex(Len(ugrid.newVariable[1]), gridret.index[2]))

\* C8: a point whose fractional index falls outside the array is given 0.0, the
\* constant fill of map_coordinates, whatever the grid holds at its nearest edge.
C8_OutOfRangeIsZero ==
    SampleOutOfRange => gridret.val = Fin(0, 1)

\* A sample outside the array whose nearest edge holds a finite value other than 0.
C8_Witness ==
    /\ SampleOutOfRange
    /\ gridret.val = Fin(0, 1)
    /\ LET e == Bilinear(ugrid.newVariable,
                         ClampIndex(Len(ugrid.newVariable), gridret.index[1]),
                         ClampIndex(Len(ugrid.newVariable[1]), gridret.index[2]))
       IN  ~ e.nan /\ e # Fin(0, 1)

\* The cells whose centre the point of the sample in progress is.
NodesSampled ==
    {c \in Cells : SampleReturned
                   /\ gridret.p = <<ugrid.grid_x[c[1]][c[2]], ugrid.grid_y[c[1]][c[2]]>>}

\* C9: interpolatePoint2D maps the coordinates of the grid node in row i, column j
\* (counted from 0) to the fractional index (i, j), and so returns the value the grid
\* stores at that node.
C9_NodeMapsToItsIndex ==
    \A c \in NodesSampled :
        /\ gridret.index = <<Frac(c[1] - 1, 1), Frac(c[2] - 1, 1)>>
        /\ gridret.val = ugrid.newVariable[c[1]][c[2]]

-----------------------------------------------------------------------------
(* Properties of the radial resampling *)

ResampleSucceeded == radret.op # "none" /\ radret.raised = "none"

\* Every field has the shape (len(x2), n).
FieldsHaveShape(n) ==
    \A k \in DOMAIN data.variables :
        /\ Len(data.variables[k]) = Len(data.x2)
        /\ \A i \in DOMAIN data.variables[k] : Len(data.variables[k][i]) = n

\* C10: when a call of interpolateRadialGrid has succeeded, whatever calls came before,
\* every field has kept its polar extent and has as many radial cells as the call had
\* ticks, and x1 is those ticks: len(x1) is the radial extent of every field.
C10_FieldsFollowTicks ==
    ResampleSucceeded =>
        /\ FieldsHaveShape(Len(radret.newTicks))
        /\ data.x1 = radret.newTicks
        /\ FieldsHaveShape(Len(data.x1))

\* The last of a sequence of MaxCalls calls has succeeded, with two ticks: fewer than
\* the mesh was loaded with.
C10_Witness ==
    /\ ResampleSucceeded
    /\ radcalls = MaxCalls
    /\ Len(radret.newTicks) = 2
    /\ data.x1 = radret.newTicks
    /\ FieldsHaveShape(2)

\* A call of interpolateRadialGrid has returned or raised, and one of its ticks lies
\* outside [x1[0], x1[-1]] of the mesh it was called on.
TickOutsideDomain ==
    /\ radret.op # "none"
    /\ \E i \in DOMAIN radret.newTicks :
          \/ radret.newTicks[i] < radret.before.x1[1]
          \/ radret.newTicks[i] > radret.before.x1[Len(radret.before.x1)]

\* C11: interpolateRadialGrid called with a tick outside [x1[0], x1[-1]] of the current
\* mesh raises an error: it does not clamp and does not extrapolate.
C11_OutOfDomainRaises ==
    TickOutsideDomain => radret.raised = "ValueError"

\* A call with its first tick inside the domain and its last tick above it has raised.
C11_Witness ==
    /\ TickOutsideDomain
    /\ radret.raised = "ValueError"
    /\ radret.newTicks[1] >= radret.before.x1[1]
    /\ radret.newTicks[1] <= radret.before.x1[Len(radret.before.x1)]
    /\ radret.newTicks[Len(radret.newTicks)] > radret.before.x1[Len(radret.before.x1)]

\* Every field of the data object d has as many radial cells as d.x1 has ticks.
FieldsShareExtent(d) ==
    \A k \in DOMAIN d.variables :
        \A i \in DOMAIN d.variables[k] : Len(d.variables[k][i]) = Len(d.x1)

\* C20: when interpolateRadialGrid raises for a tick outside the radial domain, and all
\* fields had the radial extent of the mesh, no field and not x1 has been modified.
C20_FailureLeavesDataUntouched ==
    (TickOutsideDomain /\ radret.raised # "none" /\ FieldsShareExtent(radret.before))
        => data = radret.before

\* A call on an object an earlier call has resampled raises for a tick below the domain,
\* its other ticks inside the domain.
C20_Witness ==
    /\ TickOutsideDomain
    /\ radret.raised # "none"
    /\ FieldsShareExtent(radret.before)
    /\ radcalls >= 2
    /\ radret.before.x1 \notin LoadedTicks
    /\ radret.newTicks[1] < radret.before.x1[1]
    /\ radret.newTicks[2] >= radret.before.x1[1]
    /\ data = radret.before

-----------------------------------------------------------------------------
(* Properties of the rotation to cylindrical components *)

\* The two components the call in progress was given.
ComponentsGiven ==
    IF rotret.op \in {"Transform.transformVelocityFieldToCylindrical",
                      "Tools.transformVelocityFieldToCylindrical"}
    THEN <<rotret.before.variables.vx1, rotret.before.variables.vx2>>
    ELSE <<rotret.before.variables.bx1, rotret.before.variables.bx2>>

MeshShape(d) == <<Len(d.x2), Len(d.x1)>>

ShapeMismatch ==
    /\ rotret.op # "none"
    /\ \E c \in 1..2 : Shape(ComponentsGiven[c]) # MeshShape(rotret.before)

\* C12: a transform...ToCylindrical call given a component whose shape differs from the
\* mesh's (len(x2), len(x1)) raises an error, whatever the shape: none is broadcast.
C12_MismatchRaises ==
    ShapeMismatch => rotret.raised # "none"

\* The same of the shapes numpy cannot broadcast: a component with an extent that is
\* neither the mesh's nor 1.
C12_UnbroadcastableRaises ==
    (/\ rotret.op # "none"
     /\ \E c \in 1..2 : \E a \in 1..2 :
            /\ Shape(ComponentsGiven[c])[a] # MeshShape(rotret.before)[a]
            /\ Shape(ComponentsGiven[c])[a] # 1)
        => rotret.raised # "none"

-----------------------------------------------------------------------------
(* Properties of computeStreamline *)

Returned == stream.pc = "returned"

\* C13: computeStreamline always terminates: it returns in the end, whatever the
\* velocity field.
C13_Terminates == <>Returned

\* The speed sampled at the integrator's current position.
SpeedHere == SpeedAt(stream, stream.solver_y)

\* C14 as stated: when computeStreamline returns, its result is the integrator's current
\* position and the speed sampled there is at or below the limit.
C14_ReturnsTerminalPoint ==
    Returned =>
        /\ stream.result = stream.solver_y
        /\ ~ SpeedHere.nan
        /\ ~ RLess(<<stream.limit, 1>>, SpeedHere.q)

\* C14: when computeStreamline returns, its result is the first coordinate of the
\* integrator's current position, with a potential of 0.0, and the speed sampled at
\* that position is not above the limit: at or below it, or not-a-number.
C14_ReturnsRadiusNotAboveLimit ==
    Returned =>
        /\ stream.result = <<stream.solver_y[1], 0>>
        /\ SpeedHere.nan \/ ~ RLess(<<stream.limit, 1>>, SpeedHere.q)

\* computeStreamline has returned after two steps or more, off the row y = 0, at a
\* point where the sampled speed is not-a-number.
C14_Witness ==
    /\ Returned
    /\ stream.steps >= 2
    /\ stream.solver_y[2] # 0
    /\ SpeedHere.nan
    /\ stream.result = <<stream.solver_y[1], 0>>

PathFollowed == stream.pc # "none" /\ ~ stream.overflow

\* C15 as stated: the path (x, y) starts at the seed and ends at the current position.
C15_PathStartsAtSeed ==
    PathFollowed =>
        /\ stream.x # <<>>
        /\ <<stream.x[1], stream.y[1]>> = stream.point
        /\ <<stream.x[Len(stream.x)], stream.y[Len(stream.y)]>> = stream.solver_y

\* C15: the path (x, y) is empty until the first integration step and has one position
\* for each step taken since; the seed is not in it as such.  While it is empty the
\* current position is the seed, afterwards its last element is the current position.
C15_PathFollowsSteps ==
    PathFollowed =>
        /\ Len(stream.x) = stream.steps
        /\ Len(stream.y) = stream.steps
        /\ IF stream.steps = 0
           THEN stream.solver_y = stream.point
           ELSE <<stream.x[Len(stream.x)], stream.y[Len(stream.y)]>> = stream.solver_y

\* Three steps taken: a path of three positions, the first of them not the seed, the
\* last of them the current position.
C15_Witness ==
    /\ PathFollowed
    /\ stream.steps = 3
    /\ Len(stream.x) = 3
    /\ <<stream.x[1], stream.y[1]>> # stream.point
    /\ <<stream.x[3], stream.y[3]>> = stream.solver_y
    /\ <<stream.x[2], stream.y[2]>> # stream.solver_y

\* The loop condition and the integrand have both sampled at the same point.
SampledSamePoint ==
    /\ stream.pc # "none"
    /\ stream.tested # <<>>
    /\ stream.stepped # <<>>
    /\ stream.tested[1] = stream.stepped[1]

\* C18: singlePointInterpolation (the integrand) and interpolatePoint2D (the loop
\* condition) compute the same fractional index for the same point: its row from y and
\* y_range, its column from x and x_range.
C18_SameFractionalIndex ==
    SampledSamePoint =>
        /\ stream.stepped[2] = stream.tested[2]
        /\ stream.stepped[2][1] =
              Frac((stream.stepped[1][2] - stream.y_range[1]) * stream.y_range[3],
                   stream.y_range[2] - stream.y_range[1])
        /\ stream.stepped[2][2] =
              Frac((stream.stepped[1][1] - stream.x_range[1]) * stream.x_range[3],
                   stream.x_range[2] - stream.x_range[1])

\* Both have sampled at a point whose row and column index differ.
C18_Witness ==
    /\ SampledSamePoint
    /\ stream.stepped[2] = stream.tested[2]
    /\ stream.stepped[2][1] # stream.stepped[2][2]

-----------------------------------------------------------------------------
(* C16 *)

\* What the lookup of caller r returns when it runs alone on the collection.
AloneResult(r) ==
    IF lookups[r].op = "interpolateIonFraction"
    THEN LET c == interpolateIonFraction(collection, lookups[r].args[1],
                                         lookups[r].args[2], lookups[r].args[3])
         IN  <<c.raised, c.val>>
    ELSE LET b == getIndicesFor(lookups[r].op, collection, lookups[r].args[1])
         IN  <<b.raised, <<b.l, b.r>>>>

LookupsAgreeWithAlone ==
    \A r \in Callers :
        lookups[r].pc = "returned" => <<lookups[r].raised, lookups[r].val>> = AloneResult(r)

\* C16: once the table is built, no step of interpolateIonFraction or of a bracket
\* search changes any attribute of the collection (axes, cube, sizes, spacings,
\* bounds), and under every interleaving of the callers' steps each lookup returns
\* what it returns when run alone.
C16_LookupsLeaveTableAlone ==
    /\ [](LookupsAgreeWithAlone)
    /\ [][ionpc = "built" => collection' = collection]_vars

\* Both callers have returned a fraction from interpolateIonFraction, at different
\* points, each overlapped by steps of the other.
C16_Witness ==
    /\ \A r \in Callers :
          /\ lookups[r].pc = "returned"
          /\ lookups[r].op = "interpolateIonFraction"
          /\ lookups[r].raised = "none"
          /\ lookups[r].overlap
    /\ lookups[1].args # lookups[2].args
    /\ lookups[1].val # lookups[2].val

-----------------------------------------------------------------------------
(* C17 *)

TableAxes == <<collection.temp_array, collection.zeta_array, collection.nn_array>>

TableSizes == <<collection.n_temp, collection.n_zeta, collection.n_nn>>

\* The positions along axis a of the cube that hold a sample.
OccupiedPositions(a) == {c[a] : c \in DOMAIN collection.data.cells}

\* C17 as stated: after loadIonData each of the three axes has exactly CubeSize (20)
\* entries, and the cube is CubeSize x CubeSize x CubeSize.
C17_AxesHaveCubeSize ==
    ionpc = "built" =>
        /\ \A a \in 1..3 : Len(TableAxes[a]) = CubeSize
        /\ collection.data.shape = <<CubeSize, CubeSize, CubeSize>>

\* C17, amended: after loadIonData the cube is CubeSize x CubeSize x CubeSize, and
\* each axis is strictly ascending and holds exactly one entry per unique sample
\* value, nothing padded: its length is the recorded size, at most CubeSize, and
\* its positions are exactly the positions of the cube that hold a sample (all
\* other cells of the cube are the zeros it was created with).
C17_AxesHoldUniqueValuesOnly ==
    ionpc = "built" =>
        /\ collection.data.shape = <<CubeSize, CubeSize, CubeSize>>
        /\ \A a \in 1..3 :
              /\ Len(TableAxes[a]) = TableSizes[a]
              /\ Len(TableAxes[a]) <= CubeSize
              /\ \A i \in 1..(Len(TableAxes[a]) - 1) : TableAxes[a][i] < TableAxes[a][i + 1]
              /\ OccupiedPositions(a) = 0..(Len(TableAxes[a]) - 1)

\* A table built from samples with five, three and two unique values.
C17_Witness ==
    /\ ionpc = "built"
    /\ Len(collection.temp_array) = 5
    /\ Len(collection.zeta_array) = 3
    /\ Len(collection.nn_array) = 2
    /\ collection.data.shape = <<CubeSize, CubeSize, CubeSize>>

-----------------------------------------------------------------------------
(* C19 *)

\* The file a loadIonData call has read, and its numbers of unique values.
FileRead == ionret.args[1]

UniqueValues ==
    << Cardinality({FileRead[i].t : i \in DOMAIN FileRead}),
       Cardinality({FileRead[i].zeta : i \in DOMAIN FileRead}),
       Cardinality({FileRead[i].nn : i \in DOMAIN FileRead}) >>

LoadReturned == ionret.op = "loadIonData" /\ ionret.args # <<>>

\* C19: loadIonData on a fresh object completes if and only if each of the three
\* coordinates has between 2 and CubeSize (20) unique sample values; otherwise it
\* raises IndexError (in the scatter with more than 20, at axis[1] with fewer than 2).
C19_CompletesIffTwoToCubeSize ==
    LoadReturned =>
        /\ ionret.raised = "none" <=> \A a \in 1..3 : 2 <= UniqueValues[a] /\ UniqueValues[a] <= CubeSize
        /\ ionret.raised \in {"none", "IndexError"}
        /\ (ionret.raised = "none") = (ionpc = "built")

\* A file with 21 unique values of zeta and 20 and 2 of the others has raised
\* IndexError.
C19_Witness ==
    /\ LoadReturned
    /\ UniqueValues = <<CubeSize, CubeSize + 1, 2>>
    /\ ionret.raised = "IndexError"

-----------------------------------------------------------------------------
(* C21 *)

First(x) == x[1]

Last(x) == x[Len(x)]

\* The step is a call of interpolateRadialGrid with a tick outside the radial domain
\* the object has at the call.
CallBeyondDomain ==
    /\ radret.op = "none" /\ radret'.op # "none"
    /\ \E i \in DOMAIN radret'.newTicks :
          radret'.newTicks[i] < First(data.x1) \/ radret'.newTicks[i] > Last(data.x1)

\* C21: no step of a sequence of interpolateRadialGrid calls on one data object widens
\* its radial domain [x1[0], x1[-1]] at either end, so after every sequence the domain
\* lies within the domain before it; and a call with a tick beyond the domain a
\* resample has left raises ValueError and leaves x1 as it was, wherever the tick lies
\* in the domain that was loaded.
C21_DomainNeverGrows ==
    [][ /\ First(data.x1) <= First(data'.x1)
        /\ Last(data'.x1) <= Last(data.x1)
        /\ CallBeyondDomain => (radret'.raised = "ValueError" /\ data'.x1 = data.x1)
      ]_vars

\* After a successful resample that narrowed the domain, a second call has raised for
\* ticks that lie in [1.0, 3.0], inside every loaded domain, and beyond the narrowed
\* one; x1 is still the narrowed domain.
C21_Witness ==
    /\ radcalls >= 2
    /\ radret.op = "Tools.interpolateRadialGrid"
    /\ radret.raised = "ValueError"
    /\ First(radret.newTicks) >= 10 /\ Last(radret.newTicks) <= 30
    /\ \A x1 \in LoadedTicks : First(x1) <= 10 /\ 30 <= Last(x1)
    /\ Last(radret.newTicks) > Last(radret.before.x1)
    /\ Last(radret.before.x1) < 30
    /\ data.x1 = radret.before.x1

-----------------------------------------------------------------------------
(* C22 *)

\* An in-place rotation has returned, and both components it was given had the shape
\* of the mesh.
RotatedInPlace ==
    /\ rotret.op \in {"Tools.transformVelocityFieldToCylindrical",
                      "Tools.transformMagneticFieldToCylindrical"}
    /\ rotret.raised = "none"
    /\ \A c \in 1..2 : Shape(ComponentsGiven[c]) = MeshShape(rotret.before)

\* The two components the call has stored.
ComponentsStored ==
    IF rotret.op = "Tools.transformVelocityFieldToCylindrical"
    THEN <<data.variables.vx1, data.variables.vx2>>
    ELSE <<data.variables.bx1, data.variables.bx2>>

\* C22: the in-place rotation is an involution: after any call of it on components of
\* the mesh's shape, the same rotation of what it has stored, on the same mesh, gives
\* back in every cell the two components the call was given, so that of two calls in
\* a row the second undoes the first.
C22_SecondCallRestores ==
    RotatedInPlace =>
        LET again == RotateToCylindrical(data.x1, data.x2, ComponentsStored[1], ComponentsStored[2])
        IN  /\ again.raised = "none"
            /\ again.val = ComponentsGiven

\* A velocity rotation has returned that changed both components and left vx1 and vx2
\* as they were loaded: the second of two calls in a row.
C22_Witness ==
    /\ RotatedInPlace
    /\ rotret.op = "Tools.transformVelocityFieldToCylindrical"
    /\ ComponentsStored[1] # ComponentsGiven[1]
    /\ ComponentsStored[2] # ComponentsGiven[2]
    /\ data.variables.vx1 = ComponentField(Len(data.x2), Len(data.x1), 0)
    /\ data.variables.vx2 = ComponentField(Len(data.x2), Len(data.x1), 3)
    /\ Len(data.x1) = 3 /\ Len(data.x2) = 4

-----------------------------------------------------------------------------
(* C23 *)

\* The speed sampled at the seed point is a number at or below the limit.
SeedNotAboveLimit ==
    /\ stream.pc # "none"
    /\ ~ SpeedAt(stream, stream.point).nan
    /\ ~ RLess(<<stream.limit, 1>>, SpeedAt(stream, stream.point).q)

\* C23: when the speed sampled at the seed point is at or below the limit,
\* computeStreamline takes no integration step: the loop body is never entered, the
\* solver stays at the seed, the lists x and y stay empty, and the call returns the
\* seed's first coordinate with the potential 0.0.
C23_NoStepFromSlowSeed ==
    SeedNotAboveLimit =>
        /\ stream.pc \in {"while", "returned"}
        /\ stream.steps = 0
        /\ stream.x = <<>> /\ stream.y = <<>>
        /\ stream.solver_y = stream.point
        /\ Returned => stream.result = <<stream.point[1], 0>>

\* A call seeded off the axis, where the flow has a speed above zero and not above
\* the limit, has returned.
C23_Witness ==
    /\ SeedNotAboveLimit
    /\ Returned
    /\ RLess(<<0, 1>>, SpeedAt(stream, stream.point).q)
    /\ stream.point[2] # 0
    /\ stream.result = <<stream.point[1], 0>>

=============================================================================
